---- MODULE Spec2Model ----
(***************************************************************************)
(* A model of the runs-on/config linter: cmd/lint/main.go drives           *)
(* pkg/validate/validator.go, which parses a YAML document, normalises     *)
(* boolean spot values, validates the result against the CUE schema        *)
(* (schema/runs_on.cue) in two phases, scans the original document for     *)
(* deprecated keys and returns the combined diagnostics.                   *)
(*                                                                         *)
(* Go strings are TLA+ strings, Go slices are sequences, yaml.Node is a    *)
(* record with the fields of the Go struct, and a decoded interface{}      *)
(* value is a tagged record (t, s, n, b, e, m).                            *)
(***************************************************************************)
EXTENDS Integers, Sequences, FiniteSets, TLC

VARIABLES
    pc,            \* position of the process in main / ValidateReader
    data,          \* the input: the bytes read from the file or stdin
    yamlData,      \* ValidateReader's yamlData (decoded, then normalised)
    schemaErrors,  \* ValidateReader's schemaErrors slice
    phaseA,        \* result of convertCueErrors for unified.Validate()
    phaseB,        \* result of convertCueErrors for Validate(Concrete(true))
    warnings,      \* ValidateReader's deprecationWarnings
    diags,         \* the []Diagnostic handed back to main
    err,           \* the call error handed back to main ("" is nil)
    sourceName,    \* the name diagnostics carry in Path
    format,        \* the -format flag
    stdout,        \* what main wrote on standard output
    stderr,        \* what main wrote on standard error
    exitCode,      \* argument of os.Exit (-1 while the process runs)
    mem,           \* the maps and slices normalizeSpotValues reads and
                   \* makes, as objects on the heap
    validateErr,   \* errors.Errors(err) of a Validate call, as handed to
                   \* convertCueErrors
    call,          \* the locals of each ValidateReader call of a process
                   \* that runs several of them
    schemaFS,      \* what loadSchema finds in this process: "" when the
                   \* schema loads, else its failure
    loads          \* how many times loadSchema has run in this process

vars == <<pc, data, yamlData, schemaErrors, phaseA, phaseB, warnings, diags,
          err, sourceName, format, stdout, stderr, exitCode, mem,
          validateErr, call, schemaFS, loads>>

-----------------------------------------------------------------------------
(* Go's strings package, as far as the program uses it.                    *)

HasPrefix(s, prefix) ==
    /\ Len(prefix) <= Len(s)
    /\ SubSeq(s, 1, Len(prefix)) = prefix

Contains(s, substr) ==
    \E i \in 1..(Len(s) - Len(substr) + 1) :
        SubSeq(s, i, i + Len(substr) - 1) = substr

TrimPrefix(s, prefix) ==
    IF HasPrefix(s, prefix) THEN SubSeq(s, Len(prefix) + 1, Len(s)) ELSE s

IsSpace(c) == c \in {" ", "\t", "\n", "\r"}

RECURSIVE TrimLeft(_)
TrimLeft(s) ==
    IF Len(s) > 0 /\ IsSpace(SubSeq(s, 1, 1))
    THEN TrimLeft(SubSeq(s, 2, Len(s)))
    ELSE s

RECURSIVE TrimRight(_)
TrimRight(s) ==
    IF Len(s) > 0 /\ IsSpace(SubSeq(s, Len(s), Len(s)))
    THEN TrimRight(SubSeq(s, 1, Len(s) - 1))
    ELSE s

TrimSpace(s) == TrimRight(TrimLeft(s))

-----------------------------------------------------------------------------
(* Diagnostic and Severity.                                                *)

SeverityError == "error"
SeverityWarning == "warning"

Diagnostic(path, line, column, message, severity) ==
    [Path |-> path, Line |-> line, Column |-> column,
     Message |-> message, Severity |-> severity]

-----------------------------------------------------------------------------
(* gopkg.in/yaml.v3 as the program uses it: yaml.Node, the resolution of   *)
(* plain scalars, and the decoding of a node tree into interface{}.        *)

Digits == "0123456789"

IsDigit(c) == \E i \in 1..Len(Digits) : SubSeq(Digits, i, i) = c

DigitVal(c) == (CHOOSE i \in 1..Len(Digits) : SubSeq(Digits, i, i) = c) - 1

AllDigits(s) ==
    /\ Len(s) > 0
    /\ \A i \in 1..Len(s) : IsDigit(SubSeq(s, i, i))

IsIntLiteral(s) ==
    IF HasPrefix(s, "-") THEN AllDigits(SubSeq(s, 2, Len(s))) ELSE AllDigits(s)

RECURSIVE ParseDigits(_)
ParseDigits(s) ==
    IF Len(s) = 0 THEN 0
    ELSE ParseDigits(SubSeq(s, 1, Len(s) - 1)) * 10
         + DigitVal(SubSeq(s, Len(s), Len(s)))

ParseInt(s) ==
    IF HasPrefix(s, "-") THEN 0 - ParseDigits(SubSeq(s, 2, Len(s)))
    ELSE ParseDigits(s)

\* resolve(): the tag of a scalar from its style and text.
ResolveTag(style, value) ==
    IF style # "plain" THEN "!!str"
    ELSE IF value \in {"true", "True", "TRUE", "false", "False", "FALSE"}
    THEN "!!bool"
    ELSE IF value \in {"", "~", "null", "Null", "NULL"} THEN "!!null"
    ELSE IF value = "<<" THEN "!!merge"
    ELSE IF IsIntLiteral(value) THEN "!!int"
    ELSE "!!str"

\* yaml.Node, one constructor per Kind.
ScalarNode(style, value, line, column) ==
    [Kind |-> "ScalarNode", Style |-> style, Tag |-> ResolveTag(style, value),
     Value |-> value, Content |-> <<>>, Alias |-> <<>>, Anchor |-> "",
     Line |-> line, Column |-> column]

MappingNode(content, line, column) ==
    [Kind |-> "MappingNode", Style |-> "", Tag |-> "!!map",
     Value |-> "", Content |-> content, Alias |-> <<>>, Anchor |-> "",
     Line |-> line, Column |-> column]

SequenceNode(content, line, column) ==
    [Kind |-> "SequenceNode", Style |-> "", Tag |-> "!!seq",
     Value |-> "", Content |-> content, Alias |-> <<>>, Anchor |-> "",
     Line |-> line, Column |-> column]

\* An alias node points at the anchored node (yaml.Node.Alias).
AliasNode(target, line, column) ==
    [Kind |-> "AliasNode", Style |-> "", Tag |-> "",
     Value |-> target.Anchor, Content |-> <<>>, Alias |-> <<target>>,
     Anchor |-> "", Line |-> line, Column |-> column]

DocumentNode(content) ==
    [Kind |-> "DocumentNode", Style |-> "", Tag |-> "",
     Value |-> "", Content |-> content, Alias |-> <<>>, Anchor |-> "",
     Line |-> 1, Column |-> 1]

Anchored(node, name) == [node EXCEPT !.Anchor = name]

\* A decoded value: what yaml.Unmarshal stores in an interface{}.
VNull == [t |-> "null", s |-> "", n |-> 0, b |-> FALSE, e |-> <<>>, m |-> <<>>]
VBool(b) == [VNull EXCEPT !.t = "bool", !.b = b]
VInt(n) == [VNull EXCEPT !.t = "int", !.n = n]
VStr(s) == [VNull EXCEPT !.t = "string", !.s = s]
VSeq(e) == [VNull EXCEPT !.t = "slice", !.e = e]
VMap(m) == [VNull EXCEPT !.t = "map", !.m = IF DOMAIN m = {} THEN <<>> ELSE m]

\* The indexes of the keys of a mapping node's Content (key, value, ...).
KeyIndexes(n) == {i \in 1..Len(n.Content) : i % 2 = 1 /\ i + 1 <= Len(n.Content)}

IsMerge(n) ==
    n.Kind = "ScalarNode" /\ n.Value = "<<" /\ n.Tag \in {"", "!", "!!merge"}

SetMax(S) == CHOOSE x \in S : \A y \in S : y <= x

DecodeScalar(n) ==
    CASE n.Tag = "!!bool" -> VBool(n.Value \in {"true", "True", "TRUE"})
      [] n.Tag = "!!int" -> VInt(ParseInt(n.Value))
      [] n.Tag = "!!null" -> VNull
      [] OTHER -> VStr(n.Value)

\* decoder.unmarshal into interface{}: aliases are followed, merge keys are
\* expanded (a key of the mapping itself wins over a merged one).
RECURSIVE Decode(_)
Decode(n) ==
    CASE n.Kind = "DocumentNode" ->
            IF Len(n.Content) = 0 THEN VNull ELSE Decode(n.Content[1])
      [] n.Kind = "AliasNode" -> Decode(n.Alias[1])
      [] n.Kind = "ScalarNode" -> DecodeScalar(n)
      [] n.Kind = "SequenceNode" ->
            VSeq([i \in 1..Len(n.Content) |-> Decode(n.Content[i])])
      [] n.Kind = "MappingNode" ->
            LET own == {i \in KeyIndexes(n) : ~IsMerge(n.Content[i])}
                mrg == {i \in KeyIndexes(n) : IsMerge(n.Content[i])}
                merged == IF mrg = {} THEN <<>>
                          ELSE Decode(n.Content[SetMax(mrg) + 1]).m
                ownKeys == {n.Content[i].Value : i \in own}
                valueOf(k) ==
                    n.Content[SetMax({i \in own : n.Content[i].Value = k}) + 1]
            IN  VMap([k \in ownKeys \cup DOMAIN merged |->
                        IF k \in ownKeys THEN Decode(valueOf(k))
                        ELSE merged[k]])

\* The target of a merge key must be a mapping, directly or by alias.
MergeTargetOK(v) ==
    \/ v.Kind = "MappingNode"
    \/ v.Kind = "AliasNode" /\ v.Alias[1].Kind = "MappingNode"

\* The decoder's errors for one mapping node: duplicate keys (uniqueKeys)
\* and merge keys whose value is no mapping.
MappingErrors(n) ==
    LET dup == {i \in KeyIndexes(n) : \E j \in KeyIndexes(n) :
                    /\ j < i
                    /\ n.Content[j].Kind = n.Content[i].Kind
                    /\ n.Content[j].Value = n.Content[i].Value}
        bad == {i \in KeyIndexes(n) :
                    IsMerge(n.Content[i]) /\ ~MergeTargetOK(n.Content[i + 1])}
    IN  [i \in 1..Len(n.Content) |->
            IF i \in dup
            THEN "line " \o ToString(n.Content[i].Line) \o ": mapping key \""
                 \o n.Content[i].Value \o "\" already defined"
            ELSE IF i \in bad
            THEN "line " \o ToString(n.Content[i].Line)
                 \o ": map merge requires map or sequence of maps as the value"
            ELSE ""]

RECURSIVE DecodeErrors(_)
RECURSIVE ContentErrors(_, _)
\* The errors of the children of n from index i on, in document order.
ContentErrors(n, i) ==
    IF i > Len(n.Content) THEN <<>>
    ELSE DecodeErrors(n.Content[i]) \o ContentErrors(n, i + 1)

DecodeErrors(n) ==
    CASE n.Kind = "AliasNode" -> DecodeErrors(n.Alias[1])
      [] n.Kind = "ScalarNode" -> <<>>
      [] n.Kind = "MappingNode" ->
            SelectSeq(MappingErrors(n), LAMBDA e : e # "") \o ContentErrors(n, 1)
      [] OTHER -> ContentErrors(n, 1)

RECURSIVE JoinLines(_)
JoinLines(errs) ==
    IF errs = <<>> THEN ""
    ELSE "\n  " \o Head(errs) \o JoinLines(Tail(errs))

\* yaml.Unmarshal(data, &yamlData) with yamlData an interface{}.
\* data.syntaxErr is the scanner's or parser's complaint about the bytes
\* ("" when they are well formed); data.doc is the tree of well-formed bytes.
Unmarshal(d) ==
    IF d.syntaxErr # ""
    THEN [err |-> "yaml: " \o d.syntaxErr, v |-> VNull]
    ELSE IF DecodeErrors(d.doc) # <<>>
    THEN [err |-> "yaml: unmarshal errors:" \o JoinLines(DecodeErrors(d.doc)),
          v |-> VNull]
    ELSE [err |-> "", v |-> Decode(d.doc)]

\* yaml.Unmarshal(originalYAML, &yamlNode) with yamlNode a yaml.Node: the
\* tree itself, with no decoding and so no duplicate-key check.
UnmarshalNode(d) ==
    IF d.syntaxErr # ""
    THEN [err |-> "yaml: " \o d.syntaxErr, node |-> DocumentNode(<<>>)]
    ELSE [err |-> "", node |-> d.doc]

-----------------------------------------------------------------------------
(* normalizeSpotValues, on the heap.  A Go map or slice is an object: a    *)
(* cell of the heap, named by its address.  The value of a map key or of a *)
(* slice element is a scalar or the address of another cell.  Every        *)
(* mapping key of the inputs is a string, so the decoder builds no         *)
(* map[interface{}]interface{} and only the first map case runs.           *)

Ref(a) == [VNull EXCEPT !.t = "ref", !.n = a]

IsMapRef(cells, item) == item.t = "ref" /\ cells[item.n].t = "map"
IsSliceRef(cells, item) == item.t = "ref" /\ cells[item.n].t = "slice"

\* make(map[string]interface{}) and make([]interface{}, n).
MakeMap(cells) == Append(cells, VMap(<<>>))
MakeSlice(cells, n) == Append(cells, VSeq([i \in 1..n |-> VNull]))

\* m[key] = item for the map at address a, and s[i] = item for the slice.
SetKey(cells, a, key, item) ==
    [cells EXCEPT ![a].m = (key :> item) @@ @]
SetIndex(cells, a, i, item) ==
    [cells EXCEPT ![a].e[i] = item]

\* The tree v built on the heap: the heap after it, and the item for v.
RECURSIVE Load(_, _)
RECURSIVE LoadKeys(_, _, _, _)
RECURSIVE LoadElements(_, _, _, _)
LoadKeys(v, keys, a, cells) ==
    IF keys = {} THEN cells
    ELSE LET key == CHOOSE k \in keys : TRUE
             child == Load(v.m[key], cells)
         IN  LoadKeys(v, keys \ {key}, a, SetKey(child.cells, a, key, child.item))

LoadElements(v, i, a, cells) ==
    IF i > Len(v.e) THEN cells
    ELSE LET child == Load(v.e[i], cells)
         IN  LoadElements(v, i + 1, a, SetIndex(child.cells, a, i, child.item))

Load(v, cells) ==
    LET a == Len(cells) + 1
    IN  CASE v.t = "map" ->
                [cells |-> LoadKeys(v, DOMAIN v.m, a, MakeMap(cells)),
                 item |-> Ref(a)]
          [] v.t = "slice" ->
                [cells |-> LoadElements(v, 1, a, MakeSlice(cells, Len(v.e))),
                 item |-> Ref(a)]
          [] OTHER -> [cells |-> cells, item |-> v]

\* The tree an item stands for.
RECURSIVE ValueAt(_, _)
ValueAt(cells, item) ==
    IF item.t # "ref" THEN item
    ELSE LET cell == cells[item.n]
         IN  IF cell.t = "map"
             THEN VMap([key \in DOMAIN cell.m |-> ValueAt(cells, cell.m[key])])
             ELSE VSeq([i \in 1..Len(cell.e) |-> ValueAt(cells, cell.e[i])])

\* The addresses of the cells of the tree of an item.
RECURSIVE CellsOf(_, _)
CellsOf(cells, item) ==
    IF item.t # "ref" THEN {}
    ELSE LET cell == cells[item.n]
         IN  {item.n}
             \cup UNION {CellsOf(cells, cell.m[key]) : key \in DOMAIN cell.m}
             \cup UNION {CellsOf(cells, cell.e[i]) : i \in 1..Len(cell.e)}

RECURSIVE normalizeOnHeap(_, _, _)
RECURSIVE normalizeKeys(_, _, _, _, _)
RECURSIVE normalizeKeysInPlace(_, _, _, _, _)
RECURSIVE normalizeKeysQuoting(_, _, _, _, _)
RECURSIVE normalizeElements(_, _, _, _)

\* A loop over the keys of a map that also stores the converted spot in
\* the map it reads.
normalizeKeysInPlace(level, keys, from, to, cells) ==
    IF keys = {} THEN cells
    ELSE LET key == CHOOSE k \in keys : TRUE
             value == cells[from].m[key]
         IN  IF level = "spec" /\ key = "spot" /\ value.t = "bool"
             THEN LET spot == IF value.b THEN VStr("true") ELSE VStr("false")
                  IN  normalizeKeysInPlace(level, keys \ {key}, from, to,
                          SetKey(SetKey(cells, from, key, spot), to, key, spot))
             ELSE LET child ==
                          normalizeOnHeap(
                              IF level = "tree" /\ key = "runners"
                                               /\ IsMapRef(cells, value)
                              THEN "runners"
                              ELSE IF level = "runners" /\ IsMapRef(cells, value)
                              THEN "spec" ELSE "tree",
                              value, cells)
                  IN  normalizeKeysInPlace(level, keys \ {key}, from, to,
                          SetKey(child.cells, to, key, child.item))

\* A loop over the keys of a map that turns every scalar spot into a
\* quoted string.
normalizeKeysQuoting(level, keys, from, to, cells) ==
    IF keys = {} THEN cells
    ELSE LET key == CHOOSE k \in keys : TRUE
             value == cells[from].m[key]
         IN  IF level = "spec" /\ key = "spot" /\ value.t \in {"bool", "string"}
             THEN normalizeKeysQuoting(level, keys \ {key}, from, to,
                      SetKey(cells, to, key,
                             IF value.t = "string"
                             THEN VStr("\"" \o value.s \o "\"")
                             ELSE IF value.b THEN VStr("\"true\"")
                             ELSE VStr("\"false\"")))
             ELSE LET child ==
                          normalizeOnHeap(
                              IF level = "tree" /\ key = "runners"
                                               /\ IsMapRef(cells, value)
                              THEN "runners"
                              ELSE IF level = "runners" /\ IsMapRef(cells, value)
                              THEN "spec" ELSE "tree",
                              value, cells)
                  IN  normalizeKeysQuoting(level, keys \ {key}, from, to,
                          SetKey(child.cells, to, key, child.item))

\* The `for key, value := range` loops: the keys of the map at address
\* `from` still to visit, the map at address `to` being filled.  level says
\* which loop: over a map anywhere ("tree"), over runnersMap ("runners") or
\* over runnerSpec ("spec").  Go visits the keys in an order of its choice;
\* the maps made do not depend on it.
normalizeKeys(level, keys, from, to, cells) ==
    IF keys = {} THEN cells
    ELSE LET key == CHOOSE k \in keys : TRUE
             value == cells[from].m[key]
         IN  IF level = "spec" /\ key = "spot" /\ value.t = "bool"
             THEN normalizeKeys(level, keys \ {key}, from, to,
                      SetKey(cells, to, key,
                             IF value.b THEN VStr("true") ELSE VStr("false")))
             ELSE LET child ==
                          normalizeOnHeap(
                              IF level = "tree" /\ key = "runners"
                                               /\ IsMapRef(cells, value)
                              THEN "runners"
                              ELSE IF level = "runners" /\ IsMapRef(cells, value)
                              THEN "spec" ELSE "tree",
                              value, cells)
                  IN  normalizeKeys(level, keys \ {key}, from, to,
                          SetKey(child.cells, to, key, child.item))

\* The loop of the []interface{} case.
normalizeElements(i, from, to, cells) ==
    IF i > Len(cells[from].e) THEN cells
    ELSE LET child == normalizeOnHeap("tree", cells[from].e[i], cells)
         IN  normalizeElements(i + 1, from, to,
                               SetIndex(child.cells, to, i, child.item))

\* normalizeSpotValues(item), and the two inner loops of its map case for
\* the levels "runners" and "spec": the heap after the call and the item
\* returned.
normalizeOnHeap(level, item, cells) ==
    LET to == Len(cells) + 1
    IN  CASE IsMapRef(cells, item) ->
                [cells |-> normalizeKeys(level, DOMAIN cells[item.n].m, item.n,
                                         to, MakeMap(cells)),
                 item |-> Ref(to)]
          [] IsSliceRef(cells, item) ->
                [cells |-> normalizeElements(
                               1, item.n, to,
                               MakeSlice(cells, Len(cells[item.n].e))),
                 item |-> Ref(to)]
          [] OTHER -> [cells |-> cells, item |-> item]

\* normalizeSpotValues(v) for a tree v of its own: the tree returned.
normalizeSpotValues(v) ==
    LET loaded == Load(v, <<>>)
        out == normalizeOnHeap("tree", loaded.item, loaded.cells)
    IN  ValueAt(out.cells, out.item)

-----------------------------------------------------------------------------
(* yaml.Marshal of a decoded value: map keys sorted, a string quoted when  *)
(* its plain form would resolve to another type.                           *)

\* The bytes that occur in mapping keys, in byte order.
Alphabet ==
    "+-.0123456789:<ABCDEFGHIJKLMNOPQRSTUVWXYZ_abcdefghijklmnopqrstuvwxyz"

CharRank(c) == CHOOSE i \in 1..Len(Alphabet) : SubSeq(Alphabet, i, i) = c

\* a < b for Go strings (bytewise).
RECURSIVE StringLess(_, _)
StringLess(a, b) ==
    IF Len(b) = 0 THEN FALSE
    ELSE IF Len(a) = 0 THEN TRUE
    ELSE LET ca == CharRank(SubSeq(a, 1, 1))
             cb == CharRank(SubSeq(b, 1, 1))
         IN  IF ca # cb THEN ca < cb
             ELSE StringLess(SubSeq(a, 2, Len(a)), SubSeq(b, 2, Len(b)))

\* sort.Strings of a set of keys.
RECURSIVE SortStrings(_)
SortStrings(S) ==
    IF S = {} THEN <<>>
    ELSE LET least == CHOOSE x \in S : \A y \in S : x = y \/ StringLess(x, y)
         IN  <<least>> \o SortStrings(S \ {least})

RECURSIVE MarshalNode(_)
RECURSIVE MarshalPairs(_, _)
MarshalPairs(m, keys) ==
    IF keys = <<>> THEN <<>>
    ELSE <<MarshalNode(VStr(Head(keys))), MarshalNode(m[Head(keys)])>>
         \o MarshalPairs(m, Tail(keys))

MarshalNode(v) ==
    CASE v.t = "null" -> ScalarNode("plain", "null", 0, 0)
      [] v.t = "bool" ->
            ScalarNode("plain", IF v.b THEN "true" ELSE "false", 0, 0)
      [] v.t = "int" -> ScalarNode("plain", ToString(v.n), 0, 0)
      [] v.t = "string" ->
            ScalarNode(IF ResolveTag("plain", v.s) = "!!str"
                       THEN "plain" ELSE "quoted", v.s, 0, 0)
      [] v.t = "slice" ->
            SequenceNode([i \in 1..Len(v.e) |-> MarshalNode(v.e[i])], 0, 0)
      [] v.t = "map" ->
            MappingNode(MarshalPairs(v.m, SortStrings(DOMAIN v.m)), 0, 0)

\* yaml.Marshal: the bytes of the value, as the tree they parse to.
Marshal(v) == [syntaxErr |-> "", doc |-> DocumentNode(<<MarshalNode(v)>>)]

-----------------------------------------------------------------------------
(* The CUE schema (schema/runs_on.cue, embedded as schema.cue).  A type is *)
(* written as in the schema; a field carries the line and column of its    *)
(* type expression in the schema file.                                     *)

F(name, optional, type, line, column) ==
    [name |-> name, optional |-> optional, type |-> type,
     pos |-> [Line |-> line, Column |-> column]]

\* #RepoConfig: `_extends` is a hidden field (its name starts with an
\* underscore), so it constrains no key of the data.
RepoConfigFields ==
    << F("runners", TRUE, "{[string]: #RunnerSpec}", 9, 12),
       F("images", TRUE, "{[string]: #ImageSpec}", 14, 11),
       F("pools", TRUE, "{[string]: #PoolSpec}", 19, 10),
       F("admins", TRUE, "[...string]", 24, 11) >>

RunnerSpecFields ==
    << F("id", TRUE, "string", 33, 7),
       F("cpu", TRUE, "#IntArray", 36, 8),
       F("ram", TRUE, "#IntArray", 39, 8),
       F("disk", TRUE, "string", 42, 9),
       F("volume", TRUE, "string", 46, 11),
       F("retry", TRUE, "#StringArray", 49, 10),
       F("extras", TRUE, "#StringArray", 52, 11),
       F("ssh", TRUE, "#BoolOrString", 55, 8),
       F("private", TRUE, "#BoolOrString", 58, 12),
       F("spot", TRUE, "#SpotValue", 63, 9),
       F("family", TRUE, "#StringArray", 66, 11),
       F("image", TRUE, "string", 69, 10),
       F("preinstall", TRUE, "string", 72, 15),
       F("tags", TRUE, "#StringArray", 75, 9) >>

ImageSpecFields ==
    << F("id", TRUE, "string", 81, 7),
       F("platform", TRUE, "string", 84, 13),
       F("arch", TRUE, "string", 87, 9),
       F("name", TRUE, "string", 90, 9),
       F("owner", TRUE, "string", 93, 10),
       F("preinstall", TRUE, "string", 96, 15),
       F("ami", TRUE, "string", 99, 8),
       F("main_disk_size", TRUE, "int & >=0", 102, 19),
       F("root_device_name", TRUE, "string", 105, 21),
       F("tags", TRUE, "{[string]: string}", 108, 9) >>

PoolSpecFields ==
    << F("name", FALSE, "string & =~\"^[a-z0-9_-]+$\"", 116, 8),
       F("version", TRUE, "string", 119, 12),
       F("env", TRUE, "string", 122, 8),
       F("timezone", TRUE, "string", 125, 13),
       F("schedule", TRUE, "[...#PoolSchedule]", 128, 13),
       F("runner", FALSE, "string", 131, 10),
       F("max_surge", TRUE, "int & >=0", 134, 14) >>

\* A schedule entry whose counts are any integers.
PoolScheduleFieldsUnbounded ==
    << F("name", FALSE, "string", 140, 8),
       F("stopped", FALSE, "int", 143, 11),
       F("hot", FALSE, "int", 146, 7),
       F("match", TRUE, "#ScheduleMatch", 149, 10) >>

PoolScheduleFields ==
    << F("name", FALSE, "string", 140, 8),
       F("stopped", FALSE, "int & >=0", 143, 11),
       F("hot", FALSE, "int & >=0", 146, 7),
       F("match", TRUE, "#ScheduleMatch", 149, 10) >>

ScheduleMatchFields ==
    << F("day", TRUE, "[...string]", 155, 8),
       F("time", TRUE, "[...string]", 158, 9) >>

StructDefs ==
    {"#RepoConfig", "#RunnerSpec", "#ImageSpec", "#PoolSpec", "#PoolSchedule",
     "#ScheduleMatch"}

Fields(def) ==
    CASE def = "#RepoConfig" -> RepoConfigFields
      [] def = "#RunnerSpec" -> RunnerSpecFields
      [] def = "#ImageSpec" -> ImageSpecFields
      [] def = "#PoolSpec" -> PoolSpecFields
      [] def = "#PoolSchedule" -> PoolScheduleFields
      [] def = "#ScheduleMatch" -> ScheduleMatchFields

\* Only #RepoConfig ends with `...`; a definition without it is closed.
\* A schema whose every definition ends with `...`.
IsOpenEverywhere(def) == TRUE

IsOpen(def) == def = "#RepoConfig"

\* An #IntArray without its string forms.
IntArrayOfInts == <<"int", "[...int]">>

IntArray == <<"int", "string", "[...int]", "[...string]">>
StringArray == <<"string", "[...string]">>
BoolOrString == <<"bool", "\"true\"", "\"false\"">>
SpotValue ==
    <<"\"false\"", "\"never\"", "\"true\"", "\"pco\"",
      "\"price-capacity-optimized\"", "\"lp\"", "\"lowest-price\"", "\"co\"",
      "\"capacity-optimized\"">>

\* The alternatives of a disjunction (<<>> for a type that is none).
Alternatives(type) ==
    CASE type = "#IntArray" -> IntArray
      [] type = "#StringArray" -> StringArray
      [] type = "#BoolOrString" -> BoolOrString
      [] type = "#SpotValue" -> SpotValue
      [] OTHER -> <<>>

IsListType(type) == HasPrefix(type, "[...")
ElemType(type) == SubSeq(type, 5, Len(type) - 1)

IsMapType(type) == HasPrefix(type, "{[string]: ")
MapValueType(type) == SubSeq(type, 12, Len(type) - 1)

IsLiteralType(type) == HasPrefix(type, "\"")
LiteralOf(type) == SubSeq(type, 2, Len(type) - 1)

PoolNameChars == "abcdefghijklmnopqrstuvwxyz0123456789_-"

\* =~"^[a-z0-9_-]+$"
MatchesPoolName(str) ==
    /\ Len(str) > 0
    /\ \A i \in 1..Len(str) : Contains(PoolNameChars, SubSeq(str, i, i))

-----------------------------------------------------------------------------
(* cuelang.org/go: unified.Validate() on schema.Unify(ctx.Encode(yamlData)) *)
(* as the recursive match of a decoded value against the schema.  An       *)
(* error carries the path of the field from #Config, its text and the      *)
(* positions it reports (the schema's: encoded data has none).             *)

CueError(path, text, pos) == [path |-> path, text |-> text, pos |-> <<pos>>]

\* The CUE kind of a decoded value, as the messages name it.
KindOf(v) ==
    CASE v.t = "slice" -> "list"
      [] v.t = "map" -> "struct"
      [] OTHER -> v.t

RECURSIVE Show(_)
RECURSIVE ShowList(_, _)
RECURSIVE ShowMap(_, _)
ShowList(e, i) ==
    IF i > Len(e) THEN ""
    ELSE (IF i > 1 THEN "," ELSE "") \o Show(e[i]) \o ShowList(e, i + 1)

ShowMap(m, keys) ==
    IF keys = <<>> THEN ""
    ELSE Head(keys) \o ":" \o Show(m[Head(keys)])
         \o (IF Len(keys) > 1 THEN "," ELSE "") \o ShowMap(m, Tail(keys))

\* A value as a message prints it.
Show(v) ==
    CASE v.t = "null" -> "null"
      [] v.t = "bool" -> IF v.b THEN "true" ELSE "false"
      [] v.t = "int" -> ToString(v.n)
      [] v.t = "string" -> "\"" \o v.s \o "\""
      [] v.t = "slice" -> "[" \o ShowList(v.e, 1) \o "]"
      [] v.t = "map" -> "{" \o ShowMap(v.m, SortStrings(DOMAIN v.m)) \o "}"

\* The basic type under a constrained scalar type.
BaseOf(type) ==
    CASE type = "int & >=0" -> "int"
      [] type = "string & =~\"^[a-z0-9_-]+$\"" -> "string"
      [] OTHER -> type

Conflict(v, type, kind, path, pos) ==
    CueError(path,
             "conflicting values " \o Show(v) \o " and " \o type
             \o " (mismatched types " \o KindOf(v) \o " and " \o kind \o ")",
             pos)

\* A regular field that the data leaves without a concrete value.
Incomplete(type, path, pos) ==
    CueError(path,
             "incomplete value "
             \o (CASE type = "int & >=0" -> ">=0 & int"
                   [] type = "string & =~\"^[a-z0-9_-]+$\"" ->
                        "=~\"^[a-z0-9_-]+$\""
                   [] OTHER -> type),
             pos)

DeclaredNames(def) == {Fields(def)[i].name : i \in 1..Len(Fields(def))}

RECURSIVE Check(_, _, _, _, _)
RECURSIVE CheckAlternatives(_, _, _, _, _)
RECURSIVE CheckElements(_, _, _, _, _, _)
RECURSIVE CheckEntries(_, _, _, _, _, _)
RECURSIVE CheckFields(_, _, _, _)

\* The errors of every alternative of a disjunction, in declared order.
CheckAlternatives(alts, v, path, pos, concrete) ==
    IF alts = <<>> THEN <<>>
    ELSE Check(Head(alts), v, path, pos, concrete)
         \o CheckAlternatives(Tail(alts), v, path, pos, concrete)

\* [...T]: the elements from index i on.
CheckElements(type, e, i, path, pos, concrete) ==
    IF i > Len(e) THEN <<>>
    ELSE Check(type, e[i], path \o "." \o ToString(i - 1), pos, concrete)
         \o CheckElements(type, e, i + 1, path, pos, concrete)

\* {[string]: T}: the entries, in the sorted key order of the encoded map.
CheckEntries(type, m, keys, path, pos, concrete) ==
    IF keys = <<>> THEN <<>>
    ELSE Check(type, m[Head(keys)], path \o "." \o Head(keys), pos, concrete)
         \o CheckEntries(type, m, Tail(keys), path, pos, concrete)

\* The declared fields of a struct, in declaration order: a present field is
\* matched against its type; an absent regular (non-optional) field is an
\* incomplete value, which only Validate(cue.Concrete(true)) reports.
CheckFields(fields, m, path, concrete) ==
    IF fields = <<>> THEN <<>>
    ELSE LET f == Head(fields)
             p == path \o "." \o f.name
         IN  (IF f.name \in DOMAIN m
              THEN Check(f.type, m[f.name], p, f.pos, concrete)
              ELSE IF ~f.optional /\ concrete
              THEN <<Incomplete(f.type, p, f.pos)>>
              ELSE <<>>)
             \o CheckFields(Tail(fields), m, path, concrete)

Check(type, v, path, pos, concrete) ==
    IF Alternatives(type) # <<>>
    THEN IF \E i \in 1..Len(Alternatives(type)) :
                Check(Alternatives(type)[i], v, path, pos, concrete) = <<>>
         THEN <<>>
         ELSE LET errs == CheckAlternatives(Alternatives(type), v, path, pos,
                                            concrete)
              IN  <<CueError(path, ToString(Len(errs))
                             \o " errors in empty disjunction:", pos)>> \o errs
    ELSE IF type \in StructDefs
    THEN IF v.t # "map" THEN <<Conflict(v, "{...}", "struct", path, pos)>>
         ELSE LET extra == SortStrings(DOMAIN v.m \ DeclaredNames(type))
              IN  CheckFields(Fields(type), v.m, path, concrete)
                  \o (IF IsOpen(type) THEN <<>>
                      ELSE [i \in 1..Len(extra) |->
                              CueError(path \o "." \o extra[i],
                                       "field not allowed", pos)])
    ELSE IF IsMapType(type)
    THEN IF v.t # "map" THEN <<Conflict(v, "{...}", "struct", path, pos)>>
         ELSE CheckEntries(MapValueType(type), v.m, SortStrings(DOMAIN v.m),
                           path, pos, concrete)
    ELSE IF IsListType(type)
    THEN IF v.t # "slice" THEN <<Conflict(v, type, "list", path, pos)>>
         ELSE CheckElements(ElemType(type), v.e, 1, path, pos, concrete)
    ELSE IF IsLiteralType(type)
    THEN IF v.t = "string" /\ v.s = LiteralOf(type) THEN <<>>
         ELSE IF v.t = "string"
         THEN <<CueError(path, "conflicting values " \o type \o " and "
                               \o Show(v), pos)>>
         ELSE <<Conflict(v, type, "string", path, pos)>>
    ELSE IF v.t # BaseOf(type)
    THEN <<Conflict(v, BaseOf(type), BaseOf(type), path, pos)>>
    ELSE IF type = "int & >=0" /\ v.n < 0
    THEN <<CueError(path, "invalid value " \o Show(v)
                          \o " (out of bound >=0)", pos)>>
    ELSE IF type = "string & =~\"^[a-z0-9_-]+$\"" /\ ~MatchesPoolName(v.s)
    THEN <<CueError(path, "invalid value " \o Show(v)
                          \o " (out of bound =~\"^[a-z0-9_-]+$\")", pos)>>
    ELSE <<>>

\* The position of #Config's value, #RepoConfig, in the schema.
ConfigPos == [Line |-> 177, Column |-> 10]

\* unified.Validate(opts): the error list of the unified value (<<>> is a
\* nil error).
Validate(v, concrete) == Check("#RepoConfig", v, "#Config", ConfigPos, concrete)

\* An error text that leaves the path of the field out.
ErrorTextWithoutPath(e) == e.text

\* err.Error() of one CUE error: its path, then its text.
ErrorText(e) == e.path \o ": " \o e.text

-----------------------------------------------------------------------------
(* pkg/validate/validator.go                                               *)

\* convertCueErrors: one Diagnostic per error of the list, in order.
\* A conversion that reports a missing required field as a warning.
RECURSIVE convertCueErrorsLenient(_, _)
convertCueErrorsLenient(errList, source) ==
    IF errList = <<>> THEN <<>>
    ELSE LET e == Head(errList)
             line == IF Len(e.pos) > 0 THEN e.pos[1].Line ELSE 0
             column == IF Len(e.pos) > 0 THEN e.pos[1].Column ELSE 0
             msg == TrimSpace(TrimPrefix(ErrorText(e), "#Config:"))
         IN  <<Diagnostic(source, line, column, msg,
                          IF Contains(msg, "incomplete value")
                          THEN SeverityWarning ELSE SeverityError)>>
             \o convertCueErrorsLenient(Tail(errList), source)

\* A conversion that stops after the first error of the list.
convertCueErrorsFirst(errList, source) ==
    IF errList = <<>> THEN <<>>
    ELSE LET e == Head(errList)
             line == IF Len(e.pos) > 0 THEN e.pos[1].Line ELSE 0
             column == IF Len(e.pos) > 0 THEN e.pos[1].Column ELSE 0
             msg == TrimSpace(TrimPrefix(ErrorText(e), "#Config:"))
         IN  <<Diagnostic(source, line, column, msg, SeverityError)>>

RECURSIVE convertCueErrors(_, _)
convertCueErrors(errList, source) ==
    IF errList = <<>> THEN <<>>
    ELSE LET e == Head(errList)
             line == IF Len(e.pos) > 0 THEN e.pos[1].Line ELSE 0
             column == IF Len(e.pos) > 0 THEN e.pos[1].Column ELSE 0
             msg == TrimSpace(TrimPrefix(ErrorText(e), "#Config:"))
         IN  <<Diagnostic(source, line, column, msg, SeverityError)>>
             \o convertCueErrors(Tail(errList), source)

\* existingMsgs of ValidateReader: the messages of the first phase.
ExistingMsgs(errors) == {errors[i].Message : i \in 1..Len(errors)}

\* A merge that drops an incomplete error only when an error with the same
\* message and the same position was reported.
RECURSIVE AppendIncompleteByPosition(_, _, _)
AppendIncompleteByPosition(errors, incompleteErrors, existingMsgs) ==
    IF incompleteErrors = <<>> THEN errors
    ELSE AppendIncompleteByPosition(
            IF \E i \in 1..Len(errors) : errors[i] = Head(incompleteErrors)
            THEN errors
            ELSE Append(errors, Head(incompleteErrors)),
            Tail(incompleteErrors), existingMsgs)

\* A merge that adds the message of each error it appends to the known
\* messages.
RECURSIVE AppendIncompleteOnce(_, _, _)
AppendIncompleteOnce(errors, incompleteErrors, existingMsgs) ==
    IF incompleteErrors = <<>> THEN errors
    ELSE IF Head(incompleteErrors).Message \in existingMsgs
    THEN AppendIncompleteOnce(errors, Tail(incompleteErrors), existingMsgs)
    ELSE AppendIncompleteOnce(Append(errors, Head(incompleteErrors)),
                              Tail(incompleteErrors),
                              existingMsgs \cup {Head(incompleteErrors).Message})

\* The loop of ValidateReader that appends the incomplete errors whose
\* message the first phase did not report.
RECURSIVE AppendIncomplete(_, _, _)
AppendIncomplete(errors, incompleteErrors, existingMsgs) ==
    IF incompleteErrors = <<>> THEN errors
    ELSE AppendIncomplete(
            IF Head(incompleteErrors).Message \in existingMsgs
            THEN errors
            ELSE Append(errors, Head(incompleteErrors)),
            Tail(incompleteErrors), existingMsgs)

DiskMessage ==
    "field 'disk' is deprecated, use 'volume' instead (e.g., volume=80gb:gp3:125mbs:3000iops)"

EnvironmentMessage == "field 'environment' is deprecated, use 'env' instead"

\* An inner loop that reports the position of the value of the key.
RECURSIVE ScanSpecAtValue(_, _, _, _, _)
ScanSpecAtValue(specNode, k, field, message, source) ==
    IF k > Len(specNode.Content) THEN <<>>
    ELSE LET fieldKeyNode == specNode.Content[k]
             fieldValueNode == specNode.Content[k + 1]
         IN  (IF fieldKeyNode.Value = field
              THEN <<Diagnostic(source, fieldValueNode.Line,
                                fieldValueNode.Column, message,
                                SeverityWarning)>>
              ELSE <<>>)
             \o ScanSpecAtValue(specNode, k + 2, field, message, source)

\* The innermost loop of checkDeprecatedFields: the keys of one runner or
\* pool mapping from index k on.
RECURSIVE ScanSpec(_, _, _, _, _)
ScanSpec(specNode, k, field, message, source) ==
    IF k > Len(specNode.Content) THEN <<>>
    ELSE LET fieldKeyNode == specNode.Content[k]
         IN  (IF fieldKeyNode.Value = field
              THEN <<Diagnostic(source, fieldKeyNode.Line, fieldKeyNode.Column,
                                message, SeverityWarning)>>
              ELSE <<>>)
             \o ScanSpec(specNode, k + 2, field, message, source)

\* A middle loop that stops at the first entry with a hit.
RECURSIVE ScanEntriesFirstHit(_, _, _, _, _)
ScanEntriesFirstHit(valueNode, j, field, message, source) ==
    IF j + 1 > Len(valueNode.Content) THEN <<>>
    ELSE LET specNode == valueNode.Content[j + 1]
             hits == IF specNode.Kind = "MappingNode"
                     THEN ScanSpec(specNode, 1, field, message, source)
                     ELSE <<>>
         IN  IF hits # <<>> THEN hits
             ELSE ScanEntriesFirstHit(valueNode, j + 2, field, message, source)

\* The middle loop: the entries of the runners or pools mapping from j on.
RECURSIVE ScanEntries(_, _, _, _, _)
ScanEntries(valueNode, j, field, message, source) ==
    IF j + 1 > Len(valueNode.Content) THEN <<>>
    ELSE LET specNode == valueNode.Content[j + 1]
         IN  (IF specNode.Kind = "MappingNode"
              THEN ScanSpec(specNode, 1, field, message, source)
              ELSE <<>>)
             \o ScanEntries(valueNode, j + 2, field, message, source)

\* An outer loop that scans the entries of every root key for both fields.
RECURSIVE ScanRootAnySection(_, _, _)
ScanRootAnySection(root, i, source) ==
    IF i + 1 > Len(root.Content) THEN <<>>
    ELSE LET valueNode == root.Content[i + 1]
         IN  (IF valueNode.Kind = "MappingNode"
              THEN ScanEntries(valueNode, 1, "disk", DiskMessage, source)
                   \o ScanEntries(valueNode, 1, "environment",
                                  EnvironmentMessage, source)
              ELSE <<>>)
             \o ScanRootAnySection(root, i + 2, source)

\* The outer loop: the keys of the root mapping from index i on.
RECURSIVE ScanRoot(_, _, _)
ScanRoot(root, i, source) ==
    IF i + 1 > Len(root.Content) THEN <<>>
    ELSE LET keyNode == root.Content[i]
             valueNode == root.Content[i + 1]
         IN  (IF keyNode.Value = "runners" /\ valueNode.Kind = "MappingNode"
              THEN ScanEntries(valueNode, 1, "disk", DiskMessage, source)
              ELSE IF keyNode.Value = "pools" /\ valueNode.Kind = "MappingNode"
              THEN ScanEntries(valueNode, 1, "environment", EnvironmentMessage,
                               source)
              ELSE <<>>)
             \o ScanRoot(root, i + 2, source)

\* checkDeprecatedFieldsRecursive, the fallback without line numbers.  Go
\* ranges over a map in an unspecified order; the keys are taken in sorted
\* order here, one of the orders it may take.
RECURSIVE checkDeprecatedFieldsRecursive(_, _, _)
RECURSIVE RangeFallback(_, _, _, _)
RECURSIVE RangeSlice(_, _, _, _)
RECURSIVE RangeSpecs(_, _, _, _, _)
RangeSpecs(m, keys, section, field, source) ==
    IF keys = <<>> THEN <<>>
    ELSE (IF m[Head(keys)].t = "map" /\ field \in DOMAIN m[Head(keys)].m
          THEN <<Diagnostic(source, 0, 0,
                    "field '" \o section \o "." \o Head(keys) \o "." \o field
                    \o (IF field = "disk"
                        THEN "' is deprecated, use 'volume' instead (e.g., volume=80gb:gp3:125mbs:3000iops)"
                        ELSE "' is deprecated, use 'env' instead"),
                    SeverityWarning)>>
          ELSE <<>>)
         \o RangeSpecs(m, Tail(keys), section, field, source)

RangeFallback(m, keys, source, path) ==
    IF keys = <<>> THEN <<>>
    ELSE LET key == Head(keys)
             value == m[key]
             currentPath == IF path # "" THEN path \o "." \o key ELSE key
         IN  (IF key = "runners"
              THEN IF value.t = "map"
                   THEN RangeSpecs(value.m, SortStrings(DOMAIN value.m),
                                   "runners", "disk", source)
                   ELSE <<>>
              ELSE IF key = "pools"
              THEN IF value.t = "map"
                   THEN RangeSpecs(value.m, SortStrings(DOMAIN value.m),
                                   "pools", "environment", source)
                   ELSE <<>>
              ELSE checkDeprecatedFieldsRecursive(value, source, currentPath))
             \o RangeFallback(m, Tail(keys), source, path)

RangeSlice(e, i, source, path) ==
    IF i > Len(e) THEN <<>>
    ELSE checkDeprecatedFieldsRecursive(
            e[i], source, path \o "[" \o ToString(i - 1) \o "]")
         \o RangeSlice(e, i + 1, source, path)

checkDeprecatedFieldsRecursive(v, source, path) ==
    CASE v.t = "map" -> RangeFallback(v.m, SortStrings(DOMAIN v.m), source, path)
      [] v.t = "slice" -> RangeSlice(v.e, 1, source, path)
      [] OTHER -> <<>>

\* checkDeprecatedFields: the scan of the original bytes, parsed again into a
\* yaml.Node for the positions of the keys.
checkDeprecatedFields(v, source, originalYAML) ==
    LET parsed == UnmarshalNode(originalYAML)
        yamlNode == parsed.node
    IN  IF parsed.err # ""
        THEN checkDeprecatedFieldsRecursive(v, source, "")
        ELSE IF /\ yamlNode.Kind = "DocumentNode"
                /\ Len(yamlNode.Content) > 0
                /\ yamlNode.Content[1].Kind = "MappingNode"
        THEN ScanRoot(yamlNode.Content[1], 1, source)
        ELSE <<>>

-----------------------------------------------------------------------------
(* The inputs: the documents the model feeds to the linter.  A document is *)
(* laid out in block style, one key per line, two columns per level, with  *)
(* the value of a field of a runner, pool or image in flow style on the    *)
(* line of its key.                                                        *)

MaxEntries == 2   \* entries of `runners` and `pools` together

Plain(value) == ScalarNode("plain", value, 0, 0)
Quoted(value) == ScalarNode("quoted", value, 0, 0)
FlowSeq(content) == SequenceNode(content, 0, 0)
FlowMap(content) == MappingNode(content, 0, 0)

\* A flow-style value moved to its line (the nodes inside it start on the
\* same line; the program reads the position of no node inside a value).
RECURSIVE Relocate(_, _, _)
Relocate(node, line, column) ==
    [node EXCEPT !.Line = line, !.Column = column,
                 !.Content = [i \in 1..Len(node.Content) |->
                                Relocate(node.Content[i], line, column)]]

Field(key, value) == [key |-> key, value |-> value]

\* The key and value nodes of the fields of a block mapping whose first key
\* is at (line, column).
RECURSIVE BlockPairs(_, _, _)
BlockPairs(fields, line, column) ==
    IF fields = <<>> THEN <<>>
    ELSE LET f == Head(fields)
         IN  <<ScalarNode("plain", f.key, line, column),
               Relocate(f.value, line, column + Len(f.key) + 2)>>
             \o BlockPairs(Tail(fields), line + 1, column)

BlockMapping(fields, line, column) ==
    MappingNode(BlockPairs(fields, line, column), line, column)

\* `x-defaults: &base` with a runner body: the anchor other entries merge.
BaseFields == <<Field("disk", Plain("large")), Field("cpu", FlowSeq(<<Plain("2")>>))>>

BaseNode == Anchored(BlockMapping(BaseFields, 2, 3), "base")

\* An entry of runners, pools or images: a block mapping of fields, or a
\* value on the line of the entry's key (fields = <<>>).
Body(fields) == [fields |-> fields, inline |-> Plain("")]
Inline(value) == [fields |-> <<>>, inline |-> value]

EntrySize(entry) == 1 + Len(entry.fields)

Schedule(hot) ==
    FlowSeq(<<FlowMap(<<Plain("name"), Plain("x"), Plain("hot"), Plain(hot),
                        Plain("stopped"), Plain("2")>>)>>)

RunnerMenu ==
    << Body(<<Field("cpu", FlowSeq(<<Plain("2")>>)),
              Field("ram", FlowSeq(<<Plain("16")>>)),
              Field("family", FlowSeq(<<Plain("c7a")>>))>>),
       Body(<<Field("disk", Plain("large")),
              Field("cpu", FlowSeq(<<Plain("2")>>))>>),
       Body(<<Field("<<", AliasNode(BaseNode, 0, 0))>>),
       Inline(AliasNode(BaseNode, 0, 0)),
       Body(<<Field("cpu", Plain("4")), Field("debug", Plain("true"))>>),
       Body(<<Field("spot", Plain("false"))>>),
       Body(<<Field("disk", Plain("large")), Field("spot", Quoted("maybe"))>>),
       Body(<<Field("cpu", FlowSeq(<<Plain("2")>>)),
              Field("cpu", FlowSeq(<<Plain("4")>>))>>),
       Inline(Plain("5")),
       Body(<<Field("environment", Plain("prod")),
              Field("image", FlowMap(<<Plain("disk"), Plain("large")>>))>>) >>

PoolMenu ==
    << Body(<<Field("name", Plain("p")), Field("runner", Plain("r1"))>>),
       Body(<<Field("runner", Plain("r1")), Field("schedule", Schedule("1"))>>),
       Body(<<Field("name", Plain("p")), Field("runner", Plain("r1")),
              Field("environment", Plain("prod"))>>),
       Body(<<Field("name", Plain("p")), Field("environment", Plain("prod"))>>),
       Body(<<Field("name", Plain("p")), Field("runner", Plain("r1")),
              Field("schedule", Schedule("-5"))>>),
       Body(<<Field("name", Quoted("Bad Name")), Field("runner", Plain("5"))>>),
       Body(<<Field("name", Plain("p")), Field("runner", Plain("r1")),
              Field("disk", Plain("large")),
              Field("schedule",
                    FlowSeq(<<FlowMap(<<Plain("environment"), Plain("prod")>>)>>))>>) >>

\* What the document holds before `runners`: nothing, the anchor, two custom
\* root keys, or an `images` section.
RootExtras == {"none", "anchor", "custom", "image", "bad-image"}

UsesAnchor(entry) ==
    \/ entry.inline.Kind = "AliasNode"
    \/ \E i \in 1..Len(entry.fields) : entry.fields[i].value.Kind = "AliasNode"

\* The key and value nodes of the entries of a section from index i on; the
\* k-th entry of a section is named by the section's letter and k.
RECURSIVE EntryPairs(_, _, _, _)
EntryPairs(entries, i, letter, line) ==
    IF i > Len(entries) THEN <<>>
    ELSE LET entry == entries[i]
             key == ScalarNode("plain", letter \o ToString(i), line, 3)
             value == IF entry.fields = <<>>
                      THEN Relocate(entry.inline, line, 7)
                      ELSE BlockMapping(entry.fields, line + 1, 5)
         IN  <<key, value>>
             \o EntryPairs(entries, i + 1, letter, line + EntrySize(entry))

RECURSIVE SectionSize(_)
SectionSize(entries) ==
    IF entries = <<>> THEN 0
    ELSE EntrySize(Head(entries)) + SectionSize(Tail(entries))

\* A root key with a mapping of entries under it (nothing when it has none).
Section(name, letter, entries, line) ==
    IF entries = <<>> THEN <<>>
    ELSE <<ScalarNode("plain", name, line, 1),
           MappingNode(EntryPairs(entries, 1, letter, line + 1), line + 1, 3)>>

SectionLines(entries) == IF entries = <<>> THEN 0 ELSE 1 + SectionSize(entries)

NestedRunners ==
    FlowMap(<<Plain("runners"),
              FlowMap(<<Plain("r"),
                        FlowMap(<<Plain("disk"), Plain("large"),
                                  Plain("spot"), Plain("true")>>)>>)>>)

\* The root keys a document starts with, from line 1.
ExtraPairs(extra) ==
    CASE extra = "anchor" -> <<ScalarNode("plain", "x-defaults", 1, 1), BaseNode>>
      [] extra = "custom" ->
            <<ScalarNode("plain", "disk", 1, 1), ScalarNode("plain", "5", 1, 7),
              ScalarNode("plain", "x-nested", 2, 1), Relocate(NestedRunners, 2, 11)>>
      [] extra = "image" ->
            Section("images", "i", <<Body(<<Field("ami", Plain("ami-1"))>>)>>, 1)
      [] extra = "bad-image" ->
            Section("images", "i",
                    <<Body(<<Field("ami", Plain("ami-1")),
                             Field("disk", Plain("large"))>>)>>, 1)
      [] OTHER -> <<>>

ExtraLines(extra) ==
    CASE extra = "none" -> 0
      [] extra = "custom" -> 2
      [] extra = "bad-image" -> 4
      [] OTHER -> 3

\* The document with the given leading keys, runners and pools.
Document(extra, runners, pools) ==
    LET first == 1 + ExtraLines(extra)
        content == ExtraPairs(extra)
                   \o Section("runners", "r", runners, first)
                   \o Section("pools", "p", pools, first + SectionLines(runners))
    IN  DocumentNode(IF content = <<>> THEN <<>>
                     ELSE <<MappingNode(content, 1, 1)>>)

\* The strictly increasing index sequences of length at most n into a menu
\* of the given size: which entries a section holds, in menu order.
RECURSIVE Choices(_, _, _)
Choices(size, from, n) ==
    {<<>>} \cup
    (IF n = 0 THEN {}
     ELSE UNION {{<<i>> \o rest : rest \in Choices(size, i + 1, n - 1)} :
                    i \in from..size})

Pick(menu, choice) == [i \in 1..Len(choice) |-> menu[choice[i]]]

WellFormed ==
    {[syntaxErr |-> "",
      doc |-> Document(extra, Pick(RunnerMenu, rs), Pick(PoolMenu, ps))] :
        <<extra, rs, ps>> \in
            {t \in RootExtras \X Choices(Len(RunnerMenu), 1, MaxEntries)
                              \X Choices(Len(PoolMenu), 1, MaxEntries) :
                /\ Len(t[2]) + Len(t[3]) <= MaxEntries
                /\ \/ t[1] = "anchor"
                   \/ \A i \in 1..Len(t[2]) : ~UsesAnchor(RunnerMenu[t[2][i]])}}

\* Bytes the YAML scanner or parser rejects, with its complaint.
Malformed ==
    {[syntaxErr |-> e, doc |-> DocumentNode(<<>>)] :
        e \in {"line 3: mapping values are not allowed in this context",
               "line 2: did not find expected key",
               "control characters are not allowed"}}

\* A document whose root is no mapping.
ScalarDocument ==
    [syntaxErr |-> "", doc |-> DocumentNode(<<ScalarNode("plain", "5", 1, 1)>>)]

Inputs == WellFormed \cup Malformed \cup {ScalarDocument}

\* The documents piped through -stdin: those without runners and pools.
StdinInputs ==
    {[syntaxErr |-> "", doc |-> Document(extra, <<>>, <<>>)] : extra \in RootExtras}
    \cup Malformed \cup {ScalarDocument}

-----------------------------------------------------------------------------
(* cmd/lint/main.go                                                        *)

formatLocation(diag) ==
    IF diag.Line > 0
    THEN diag.Path \o ":" \o ToString(diag.Line) \o ":" \o ToString(diag.Column)
    ELSE diag.Path

\* The two Printf calls per diagnostic of outputText's loops.
RECURSIVE PrintList(_, _)
PrintList(list, i) ==
    IF i > Len(list) THEN <<>>
    ELSE <<"  " \o ToString(i) \o ". " \o formatLocation(list[i]),
           "     " \o list[i].Message>>
         \o PrintList(list, i + 1)

\* outputText: what it prints, one string per Print call (the check mark,
\* cross and warning glyphs left out).
outputText(ds) ==
    LET errors == SelectSeq(ds, LAMBDA d : d.Severity = SeverityError)
        warns == SelectSeq(ds, LAMBDA d : d.Severity # SeverityError)
    IN  IF Len(ds) = 0 THEN <<"No issues found">>
        ELSE (IF Len(errors) > 0
              THEN <<"Found " \o ToString(Len(errors)) \o " error(s):">>
                   \o PrintList(errors, 1)
              ELSE <<>>)
             \o (IF Len(warns) > 0
                 THEN <<"Found " \o ToString(Len(warns)) \o " warning(s):">>
                      \o PrintList(warns, 1)
                 ELSE <<>>)
             \o (IF Len(errors) > 0
                 THEN <<"Validation failed with " \o ToString(Len(errors))
                        \o " error(s)"
                        \o (IF Len(warns) > 0
                            THEN " and " \o ToString(Len(warns)) \o " warning(s)"
                            ELSE "")>>
                 ELSE <<"Validation passed with " \o ToString(Len(warns))
                        \o " warning(s)">>)

\* outputJSON: the jsonOutput value it encodes.
outputJSON(ds) ==
    [valid |-> Len(ds) = 0,
     diagnostics |-> [i \in 1..Len(ds) |->
                        [path |-> ds[i].Path, line |-> ds[i].Line,
                         column |-> ds[i].Column, message |-> ds[i].Message,
                         severity |-> ds[i].Severity]]]

\* outputSARIF: the results of the single run it encodes.
outputSARIF(ds) ==
    [i \in 1..Len(ds) |->
        [ruleId |-> "config-validation",
         level |-> IF ds[i].Severity = SeverityWarning THEN "warning" ELSE "error",
         text |-> ds[i].Message,
         uri |-> ds[i].Path,
         startLine |-> IF ds[i].Line > 0 THEN ds[i].Line ELSE 0,
         startColumn |-> IF ds[i].Line > 0 THEN ds[i].Column ELSE 0]]

\* A count of all diagnostics, warnings included.
DiagnosticCount(ds) == Len(ds)

\* errorCount of main.
ErrorCount(ds) ==
    Cardinality({i \in 1..Len(ds) : ds[i].Severity = SeverityError})

NoOutput == [text |-> <<>>, json |-> <<>>, sarif |-> <<>>]

-----------------------------------------------------------------------------
(* The process: main calls ValidateFile or ValidateReader, renders the     *)
(* diagnostics and exits.                                                  *)

NoData == [syntaxErr |-> "", doc |-> DocumentNode(<<>>)]

\* The calls of a process that runs one call: none of them has started.
Workers == {"w1", "w2"}

Idle ==
    [pc |-> "idle", data |-> NoData, sourceName |-> "", yamlData |-> VNull,
     schemaErrors |-> <<>>, diags |-> <<>>, err |-> ""]

NoCalls == [w \in Workers |-> Idle]

\* No tree on the heap.
NoMem == [cells |-> <<>>, input |-> VNull, output |-> VNull]

\* The tree v on the heap, as yaml.Unmarshal leaves it in yamlData.
OnHeap(v) ==
    LET loaded == Load(v, <<>>)
    IN  [cells |-> loaded.cells, input |-> loaded.item, output |-> VNull]

Formats == {"text", "json", "sarif", "xml"}

SchemaFailures ==
    {"failed to read schema file",
     "failed to compile schema: invalid schema",
     "schema does not define #Config"}

Init ==
    /\ pc = "main"
    /\ data = NoData
    /\ yamlData = VNull
    /\ schemaErrors = <<>>
    /\ phaseA = <<>>
    /\ phaseB = <<>>
    /\ warnings = <<>>
    /\ diags = <<>>
    /\ err = ""
    /\ sourceName = ""
    /\ format = ""
    /\ stdout = NoOutput
    /\ stderr = <<>>
    /\ exitCode = -1
    /\ mem = NoMem
    /\ validateErr = <<>>
    /\ call = NoCalls
    /\ schemaFS = ""
    /\ loads = 0

\* main, -version: print the version and exit.
PrintVersion ==
    /\ pc = "main"
    /\ stdout' = [NoOutput EXCEPT !.text = <<"runs-on-config-lint v0.1.0">>]
    /\ exitCode' = 0
    /\ pc' = "exited"
    /\ UNCHANGED <<data, yamlData, schemaErrors, phaseA, phaseB, warnings,
                   diags, err, sourceName, format, stderr>>
    /\ UNCHANGED <<mem, validateErr, call, schemaFS, loads>>

\* main without -stdin and without a file argument.
NoFileSpecified ==
    /\ pc = "main"
    /\ stderr' = <<"Error: no file specified", "Usage: lint [flags] <file>">>
    /\ exitCode' = 1
    /\ pc' = "exited"
    /\ UNCHANGED <<data, yamlData, schemaErrors, phaseA, phaseB, warnings,
                   diags, err, sourceName, format, stdout>>
    /\ UNCHANGED <<mem, validateErr, call, schemaFS, loads>>

\* ValidateFile: os.Open fails.
OpenFails ==
    /\ pc = "main"
    /\ sourceName' = "runs-on.yml"
    /\ err' = "failed to open file: open runs-on.yml: no such file or directory"
    /\ diags' = <<>>
    /\ pc' = "returned"
    /\ UNCHANGED <<data, yamlData, schemaErrors, phaseA, phaseB, warnings,
                   format, stdout, stderr, exitCode>>
    /\ UNCHANGED <<mem, validateErr, call, schemaFS, loads>>

\* ValidateReader: io.ReadAll fails.
ReadFails(stdin) ==
    /\ pc = "main"
    /\ sourceName' = IF stdin THEN "<stdin>" ELSE "runs-on.yml"
    /\ err' = "failed to read content: read error"
    /\ diags' = <<>>
    /\ pc' = "returned"
    /\ UNCHANGED <<data, yamlData, schemaErrors, phaseA, phaseB, warnings,
                   format, stdout, stderr, exitCode>>
    /\ UNCHANGED <<mem, validateErr, call, schemaFS, loads>>

\* ValidateReader: io.ReadAll returns the bytes d.
ReadAll(d, stdin) ==
    /\ pc = "main"
    /\ sourceName' = IF stdin THEN "<stdin>" ELSE "runs-on.yml"
    /\ data' = d
    /\ pc' = "parse"
    /\ UNCHANGED <<yamlData, schemaErrors, phaseA, phaseB, warnings, diags,
                   err, format, stdout, stderr, exitCode>>
    /\ UNCHANGED <<mem, validateErr, call, schemaFS, loads>>

\* A parse step that returns the failure as the call's error.
ParseYAMLReturnsError ==
    /\ pc = "parse"
    /\ LET parsed == Unmarshal(data)
       IN  IF parsed.err # ""
           THEN /\ diags' = <<>>
                /\ err' = "YAML parse error: " \o parsed.err
                /\ pc' = "returned"
                /\ UNCHANGED <<yamlData, mem>>
           ELSE /\ yamlData' = parsed.v
                /\ mem' = OnHeap(parsed.v)
                /\ pc' = "normalize"
                /\ UNCHANGED <<diags, err>>
    /\ UNCHANGED <<data, schemaErrors, phaseA, phaseB, warnings, sourceName,
                   format, stdout, stderr, exitCode>>
    /\ UNCHANGED <<validateErr, call, schemaFS, loads>>

\* ValidateReader: yaml.Unmarshal of the bytes; a failure is returned as the
\* only diagnostic, with a nil error.
ParseYAML ==
    /\ pc = "parse"
    /\ LET parsed == Unmarshal(data)
       IN  IF parsed.err # ""
           THEN /\ diags' = <<Diagnostic(sourceName, 0, 0,
                                         "YAML parse error: " \o parsed.err,
                                         SeverityError)>>
                /\ err' = ""
                /\ pc' = "returned"
                /\ UNCHANGED <<yamlData, mem>>
           ELSE /\ yamlData' = parsed.v
                /\ mem' = OnHeap(parsed.v)
                /\ pc' = "normalize"
                /\ UNCHANGED <<diags, err>>
    /\ UNCHANGED <<data, schemaErrors, phaseA, phaseB, warnings, sourceName,
                   format, stdout, stderr, exitCode>>
    /\ UNCHANGED <<validateErr, call, schemaFS, loads>>

\* ValidateReader: yamlData = normalizeSpotValues(yamlData).
Normalize ==
    /\ pc = "normalize"
    /\ LET out == normalizeOnHeap("tree", mem.input, mem.cells)
       IN  /\ mem' = [mem EXCEPT !.cells = out.cells, !.output = out.item]
           /\ yamlData' = ValueAt(out.cells, out.item)
    /\ pc' = "remarshal"
    /\ UNCHANGED <<data, schemaErrors, phaseA, phaseB, warnings, diags, err,
                   sourceName, format, stdout, stderr, exitCode>>
    /\ UNCHANGED <<validateErr, call, schemaFS, loads>>

\* ValidateReader: yaml.Marshal and yaml.Unmarshal of the normalised value;
\* yamlData is the new tree and nothing refers to the old ones.
Remarshal ==
    /\ pc = "remarshal"
    /\ LET again == Unmarshal(Marshal(yamlData))
       IN  IF again.err # ""
           THEN /\ err' = "failed to unmarshal normalized YAML: " \o again.err
                /\ diags' = <<>>
                /\ pc' = "returned"
                /\ UNCHANGED yamlData
           ELSE /\ yamlData' = again.v
                /\ pc' = "schema"
                /\ UNCHANGED <<diags, err>>
    /\ mem' = NoMem
    /\ UNCHANGED <<data, schemaErrors, phaseA, phaseB, warnings, sourceName,
                   format, stdout, stderr, exitCode>>
    /\ UNCHANGED <<validateErr, call, schemaFS, loads>>

\* ValidateReader: loadSchema succeeds.
LoadSchema ==
    /\ pc = "schema"
    /\ pc' = "validate"
    /\ UNCHANGED <<data, yamlData, schemaErrors, phaseA, phaseB, warnings,
                   diags, err, sourceName, format, stdout, stderr, exitCode>>
    /\ UNCHANGED <<mem, validateErr, call, schemaFS, loads>>

\* A failing loadSchema reported as a diagnostic next to the error.
LoadSchemaFailsWithDiagnostic(failure) ==
    /\ pc = "schema"
    /\ err' = "failed to load schema: " \o failure
    /\ diags' = <<Diagnostic(sourceName, 0, 0, failure, SeverityError)>>
    /\ pc' = "returned"
    /\ UNCHANGED <<data, yamlData, schemaErrors, phaseA, phaseB, warnings,
                   sourceName, format, stdout, stderr, exitCode>>
    /\ UNCHANGED <<mem, validateErr, call, schemaFS, loads>>

\* ValidateReader: loadSchema fails.
LoadSchemaFails(failure) ==
    /\ pc = "schema"
    /\ err' = "failed to load schema: " \o failure
    /\ diags' = <<>>
    /\ pc' = "returned"
    /\ UNCHANGED <<data, yamlData, schemaErrors, phaseA, phaseB, warnings,
                   sourceName, format, stdout, stderr, exitCode>>
    /\ UNCHANGED <<mem, validateErr, call, schemaFS, loads>>

\* os.Exit: the locals of the finished call are gone; main's diags, err and
\* format stay as they were when it exited.
Exit(code) ==
    /\ exitCode' = code
    /\ pc' = "exited"
    /\ data' = NoData
    /\ yamlData' = VNull
    /\ schemaErrors' = <<>>
    /\ phaseA' = <<>>
    /\ phaseB' = <<>>
    /\ warnings' = <<>>

\* A validation step without the Concrete(true) call.
ValidateSchemaOnce ==
    /\ pc = "validate"
    /\ phaseA' = convertCueErrors(Validate(yamlData, FALSE), sourceName)
    /\ phaseB' = <<>>
    /\ pc' = "merge"
    /\ UNCHANGED <<data, yamlData, schemaErrors, warnings, diags, err,
                   sourceName, format, stdout, stderr, exitCode>>
    /\ UNCHANGED <<mem, validateErr, call, schemaFS, loads>>

\* ValidateReader: the two Validate calls, without and with Concrete(true).
ValidateSchema ==
    /\ pc = "validate"
    /\ phaseA' = convertCueErrors(Validate(yamlData, FALSE), sourceName)
    /\ phaseB' = convertCueErrors(Validate(yamlData, TRUE), sourceName)
    /\ pc' = "merge"
    /\ UNCHANGED <<data, yamlData, schemaErrors, warnings, diags, err,
                   sourceName, format, stdout, stderr, exitCode>>
    /\ UNCHANGED <<mem, validateErr, call, schemaFS, loads>>

\* ValidateReader: the incomplete errors the first call did not report are
\* appended to its errors.
MergePhases ==
    /\ pc = "merge"
    /\ schemaErrors' = AppendIncomplete(phaseA, phaseB, ExistingMsgs(phaseA))
    /\ pc' = "scan"
    /\ UNCHANGED <<data, yamlData, phaseA, phaseB, warnings, diags, err,
                   sourceName, format, stdout, stderr, exitCode>>
    /\ UNCHANGED <<mem, validateErr, call, schemaFS, loads>>

\* A last step that returns the warnings before the errors.
ScanDeprecatedFirst ==
    /\ pc = "scan"
    /\ LET deprecationWarnings ==
               checkDeprecatedFields(yamlData, sourceName, data)
       IN  /\ warnings' = deprecationWarnings
           /\ diags' = deprecationWarnings \o schemaErrors
    /\ err' = ""
    /\ pc' = "returned"
    /\ UNCHANGED <<data, yamlData, schemaErrors, phaseA, phaseB, sourceName,
                   format, stdout, stderr, exitCode>>
    /\ UNCHANGED <<mem, validateErr, call, schemaFS, loads>>

\* ValidateReader: checkDeprecatedFields, and the return of all diagnostics.
ScanDeprecated ==
    /\ pc = "scan"
    /\ LET deprecationWarnings ==
               checkDeprecatedFields(yamlData, sourceName, data)
       IN  /\ warnings' = deprecationWarnings
           /\ diags' = schemaErrors \o deprecationWarnings
    /\ err' = ""
    /\ pc' = "returned"
    /\ UNCHANGED <<data, yamlData, schemaErrors, phaseA, phaseB, sourceName,
                   format, stdout, stderr, exitCode>>
    /\ UNCHANGED <<mem, validateErr, call, schemaFS, loads>>

\* main: the call failed.
ReportError ==
    /\ pc = "returned"
    /\ err # ""
    /\ stderr' = <<"Error: " \o err>>
    /\ Exit(1)
    /\ UNCHANGED <<diags, err, sourceName, format, stdout>>
    /\ UNCHANGED <<mem, validateErr, call, schemaFS, loads>>

\* main: count the errors, render in format f and exit.  written says
\* whether the encoder's write to standard output succeeded (outputText
\* ignores the result of its writes).
Output(f, written) ==
    /\ pc = "returned"
    /\ err = ""
    /\ format' = f
    /\ CASE f = "text" ->
              /\ stdout' = [NoOutput EXCEPT !.text = outputText(diags)]
              /\ stderr' = stderr
              /\ Exit(IF ErrorCount(diags) > 0 THEN 1 ELSE 0)
         [] f \in {"json", "sarif"} /\ written ->
              /\ stdout' = IF f = "json"
                           THEN [NoOutput EXCEPT !.json = <<outputJSON(diags)>>]
                           ELSE [NoOutput EXCEPT !.sarif = <<outputSARIF(diags)>>]
              /\ stderr' = stderr
              /\ Exit(IF ErrorCount(diags) > 0 THEN 1 ELSE 0)
         [] f \in {"json", "sarif"} /\ ~written ->
              /\ stdout' = stdout
              /\ stderr' = <<"Error encoding " \o (IF f = "json" THEN "JSON" ELSE "SARIF")
                             \o ": write error">>
              /\ Exit(1)
         [] OTHER ->
              /\ stdout' = stdout
              /\ stderr' = <<"Error: invalid format \"" \o f
                             \o "\" (valid: text, json, sarif)">>
              /\ Exit(1)
    /\ UNCHANGED <<diags, err, sourceName>>
    /\ UNCHANGED <<mem, validateErr, call, schemaFS, loads>>

Next ==
    \/ PrintVersion
    \/ NoFileSpecified
    \/ OpenFails
    \/ \E stdin \in BOOLEAN : ReadFails(stdin)
    \/ \E d \in Inputs : ReadAll(d, FALSE)
    \/ \E d \in StdinInputs : ReadAll(d, TRUE)
    \/ ParseYAML
    \/ Normalize
    \/ Remarshal
    \/ LoadSchema
    \/ \E failure \in SchemaFailures : LoadSchemaFails(failure)
    \/ ValidateSchema
    \/ MergePhases
    \/ ScanDeprecated
    \/ ReportError
    \/ \E f \in Formats, written \in BOOLEAN : Output(f, written)

Spec == Init /\ [][Next]_vars

-----------------------------------------------------------------------------
(* The diagnostics ValidateReader returns for the bytes d when the schema  *)
(* loads: the composition of the steps above.                              *)

ValidateReader(d, source) ==
    LET parsed == Unmarshal(d)
        v == Unmarshal(Marshal(normalizeSpotValues(parsed.v))).v
        errors == convertCueErrors(Validate(v, FALSE), source)
        incompleteErrors == convertCueErrors(Validate(v, TRUE), source)
    IN  IF parsed.err # ""
        THEN <<Diagnostic(source, 0, 0, "YAML parse error: " \o parsed.err,
                          SeverityError)>>
        ELSE AppendIncomplete(errors, incompleteErrors, ExistingMsgs(errors))
             \o checkDeprecatedFields(v, source, d)

Errors(ds) == SelectSeq(ds, LAMBDA diag : diag.Severity = SeverityError)
Warnings(ds) == SelectSeq(ds, LAMBDA diag : diag.Severity = SeverityWarning)

\* What a diagnostic says, without where it points.
Summary(ds) == [i \in 1..Len(ds) |-> <<ds[i].Severity, ds[i].Message>>]

\* ValidateReader has returned diagnostics for bytes that parsed.
ReturnedParsed ==
    /\ pc = "returned"
    /\ err = ""
    /\ data # NoData
    /\ Unmarshal(data).err = ""

-----------------------------------------------------------------------------
(* The merge of the two phases on its own: the error lists of the two      *)
(* Validate calls are drawn from every list of at most MaxErrors           *)
(* diagnostics over two messages and two positions.                        *)

MaxErrors == 2

PhaseDiagnostics ==
    {Diagnostic("runs-on.yml", line, 8, msg, SeverityError) :
        line \in {116, 131},
        msg \in {"#Config.pools.p1.name: incomplete value string",
                 "#Config.pools.p1.runner: incomplete value string"}}

RECURSIVE ListsUpTo(_, _)
ListsUpTo(S, n) ==
    IF n = 0 THEN {<<>>}
    ELSE LET shorter == ListsUpTo(S, n - 1)
         IN  shorter \cup {Append(l, x) : l \in shorter, x \in S}

DedupInit ==
    /\ pc = "merge"
    /\ data = NoData
    /\ yamlData = VNull
    /\ schemaErrors = <<>>
    /\ phaseA \in ListsUpTo(PhaseDiagnostics, MaxErrors)
    /\ phaseB \in ListsUpTo(PhaseDiagnostics, MaxErrors)
    /\ warnings = <<>>
    /\ diags = <<>>
    /\ err = ""
    /\ sourceName = "runs-on.yml"
    /\ format = ""
    /\ stdout = NoOutput
    /\ stderr = <<>>
    /\ exitCode = -1
    /\ mem = NoMem
    /\ validateErr = <<>>
    /\ call = NoCalls
    /\ schemaFS = ""
    /\ loads = 0

DedupNext == MergePhases

DedupSpec == DedupInit /\ [][DedupNext]_vars

-----------------------------------------------------------------------------
(* Claims                                                                  *)

\* C1: when the bytes fail to parse, ValidateReader returns exactly one
\* diagnostic, an Error whose message starts with "YAML parse error", and a
\* nil error; no later step has run: nothing was normalised, validated or
\* scanned, so there is no Warning and no second Error.
ParseFailureIsOneError ==
    (pc = "returned" /\ data # NoData /\ Unmarshal(data).err # "") =>
        /\ err = ""
        /\ Len(diags) = 1
        /\ diags[1].Severity = SeverityError
        /\ HasPrefix(diags[1].Message, "YAML parse error")
        /\ yamlData = VNull
        /\ phaseA = <<>> /\ phaseB = <<>> /\ schemaErrors = <<>>
        /\ warnings = <<>>

\* A duplicate key, which only the decoding rejects, was returned.
ParseFailureReturned ==
    /\ pc = "returned"
    /\ data # NoData
    /\ data.syntaxErr = ""
    /\ Unmarshal(data).err # ""
    /\ Len(diags) = 1

\* C2: for bytes that parse, the diagnostics returned are the errors of the
\* first Validate call in their order, then the errors of the Concrete call
\* that were not dropped as duplicates in their order, then the deprecation
\* warnings in scan order; nothing is sorted, reordered or cut.
ResultIsConcatenation ==
    ReturnedParsed =>
        /\ phaseA = convertCueErrors(Validate(yamlData, FALSE), sourceName)
        /\ phaseB = convertCueErrors(Validate(yamlData, TRUE), sourceName)
        /\ warnings = checkDeprecatedFields(yamlData, sourceName, data)
        /\ diags = phaseA
                   \o SelectSeq(phaseB, LAMBDA d :
                          \A i \in 1..Len(phaseA) : phaseA[i].Message # d.Message)
                   \o warnings

\* A result with an error of the first phase, an incomplete error that was
\* dropped, one that was kept, and a warning.
ConcatenationOfAllThree ==
    /\ ReturnedParsed
    /\ phaseA # <<>>
    /\ warnings # <<>>
    /\ \E i \in 1..Len(phaseB) : phaseB[i].Message \in ExistingMsgs(phaseA)
    /\ \E i \in 1..Len(phaseB) : phaseB[i].Message \notin ExistingMsgs(phaseA)
    /\ Len(diags) = Len(phaseA) + 1 + Len(warnings)

\* C3: after the merge every error of the first phase is kept, and an error
\* of the second phase is appended if and only if no error of the first
\* phase has the same Message, whatever the lines and columns of the two.
DedupIsByMessage ==
    pc = "scan" =>
        /\ Len(schemaErrors) >= Len(phaseA)
        /\ SubSeq(schemaErrors, 1, Len(phaseA)) = phaseA
        /\ SubSeq(schemaErrors, Len(phaseA) + 1, Len(schemaErrors))
              = SelectSeq(phaseB, LAMBDA d :
                    \A i \in 1..Len(phaseA) : phaseA[i].Message # d.Message)

\* An incomplete error was dropped although it points at another line than
\* the error with its message, and another incomplete error was appended.
DroppedAcrossPositions ==
    /\ pc = "scan"
    /\ \E i \in 1..Len(phaseB), j \in 1..Len(phaseA) :
          /\ phaseB[i].Message = phaseA[j].Message
          /\ phaseB[i].Line # phaseA[j].Line
    /\ Len(schemaErrors) > Len(phaseA)
    /\ Len(schemaErrors) < Len(phaseA) + Len(phaseB)

\* C4: the diagnostic of a parse failure and the diagnostics of both
\* Validate calls are Errors, the diagnostics of the deprecation scan are
\* Warnings, and a result holds no other severity.
SeverityByOrigin ==
    /\ \A i \in 1..Len(phaseA) : phaseA[i].Severity = SeverityError
    /\ \A i \in 1..Len(phaseB) : phaseB[i].Severity = SeverityError
    /\ \A i \in 1..Len(schemaErrors) : schemaErrors[i].Severity = SeverityError
    /\ \A i \in 1..Len(warnings) : warnings[i].Severity = SeverityWarning
    /\ \A i \in 1..Len(diags) :
          diags[i].Severity \in {SeverityError, SeverityWarning}
    /\ (pc = "returned" /\ data # NoData /\ Unmarshal(data).err # "") =>
          \A i \in 1..Len(diags) : diags[i].Severity = SeverityError
    /\ ReturnedParsed =>
          /\ Errors(diags) = schemaErrors
          /\ Warnings(diags) = warnings

\* A result with an incomplete error, another error and a warning.
BothSeveritiesReturned ==
    /\ ReturnedParsed
    /\ warnings # <<>>
    /\ \E i \in 1..Len(diags) : Contains(diags[i].Message, "incomplete value")
    /\ \E i \in 1..Len(diags) : Contains(diags[i].Message, "field not allowed")

\* main has rendered the diagnostics of a call that returned no error, in
\* one of the three formats, and exited.
Rendered ==
    /\ pc = "exited"
    /\ err = ""
    /\ format \in {"text", "json", "sarif"}

\* The rendering reached standard output.
Written == stdout[format] # <<>>

\* C5: for a call that returned no error and a format of text, json or
\* sarif, the exit code is 0 if and only if no diagnostic is an Error; a
\* result of Warnings only exits 0.
ExitZeroIffNoError ==
    Rendered => (exitCode = 0 <=> Errors(diags) = <<>>)

\* C5, amended: the same, given that the rendering was written; when the
\* encoder's write fails the exit code is 1 whatever the diagnostics.
ExitZeroIffNoErrorWritten ==
    Rendered =>
        /\ Written => (exitCode = 0 <=> Errors(diags) = <<>>)
        /\ ~Written => exitCode = 1

\* A result of warnings only was written as JSON and the exit code is 0.
WarningsOnlyExitZero ==
    /\ Rendered
    /\ format = "json"
    /\ Written
    /\ diags # <<>>
    /\ Errors(diags) = <<>>
    /\ exitCode = 0

\* C6: the `valid` flag of the JSON output is true if and only if no
\* diagnostic is an Error; a result of Warnings only is reported as valid.
ValidIffNoError ==
    (Rendered /\ format = "json" /\ Written) =>
        (stdout.json[1].valid <=> Errors(diags) = <<>>)

-----------------------------------------------------------------------------
(* Documents derived from a document: keys counted, removed or written out *)

Root(d) == d.doc.Content[1]

HasRootMapping(d) ==
    /\ d.syntaxErr = ""
    /\ Len(d.doc.Content) > 0
    /\ Root(d).Kind = "MappingNode"

\* Where the key `field` stands directly under an entry of the root key
\* `section`: the indexes of the section, of the entry and of the key.
FieldKeys(d, section, field) ==
    IF ~HasRootMapping(d) THEN {}
    ELSE UNION {UNION {{<<i, j, k>> :
                          k \in {k \in KeyIndexes(Root(d).Content[i + 1].Content[j + 1]) :
                                    Root(d).Content[i + 1].Content[j + 1].Content[k].Value
                                        = field}} :
                       j \in {j \in KeyIndexes(Root(d).Content[i + 1]) :
                                 Root(d).Content[i + 1].Content[j + 1].Kind
                                     = "MappingNode"}} :
                i \in {i \in KeyIndexes(Root(d)) :
                          /\ Root(d).Content[i].Value = section
                          /\ Root(d).Content[i + 1].Kind = "MappingNode"}}

\* The pairs of a mapping's Content from i on whose key is (keep) or is not
\* (~keep) one of keys.
RECURSIVE SelectPairs(_, _, _, _)
SelectPairs(content, i, keys, keep) ==
    IF i + 1 > Len(content) THEN <<>>
    ELSE (IF (content[i].Value \in keys) = keep
          THEN <<content[i], content[i + 1]>>
          ELSE <<>>)
         \o SelectPairs(content, i + 2, keys, keep)

\* A runner or pool without its key `field`.
WithoutKey(spec, field) ==
    IF spec.Kind = "MappingNode"
    THEN [spec EXCEPT !.Content = SelectPairs(@, 1, {field}, FALSE)]
    ELSE spec

\* A runner that is only a merge of an anchor, as the anchor's mapping.
WrittenOut(spec) ==
    IF /\ spec.Kind = "MappingNode"
       /\ Len(spec.Content) = 2
       /\ IsMerge(spec.Content[1])
       /\ spec.Content[2].Kind = "AliasNode"
       /\ spec.Content[2].Alias[1].Kind = "MappingNode"
    THEN [spec.Content[2].Alias[1] EXCEPT !.Anchor = ""]
    ELSE spec

\* The document d with the entries of the root key `section` replaced by
\* what Entry gives for them.
InSection(d, section, Entry(_)) ==
    LET root == Root(d).Content
        Entries(content) ==
            [j \in 1..Len(content) |->
                IF j % 2 = 0 THEN Entry(content[j]) ELSE content[j]]
    IN  IF ~HasRootMapping(d) THEN d
        ELSE [d EXCEPT !.doc.Content[1].Content =
                [i \in 1..Len(root) |->
                    IF /\ i % 2 = 0
                       /\ root[i - 1].Value = section
                       /\ root[i].Kind = "MappingNode"
                    THEN [root[i] EXCEPT !.Content = Entries(root[i].Content)]
                    ELSE root[i]]]

\* d without its deprecated keys.
WithoutDeprecated(d) ==
    LET NoDisk(spec) == WithoutKey(spec, "disk")
        NoEnvironment(spec) == WithoutKey(spec, "environment")
    IN  InSection(InSection(d, "runners", NoDisk), "pools", NoEnvironment)

\* d with every runner that is only `<<: *anchor` written with the fields
\* of the anchor as its own keys.
MergesWrittenOut(d) == InSection(d, "runners", WrittenOut)

KnownRootKeys == {"_extends", "runners", "images", "pools", "admins"}

\* d without the root keys the schema does not name.
WithoutUnknownRootKeys(d) ==
    IF ~HasRootMapping(d) THEN d
    ELSE [d EXCEPT !.doc.Content[1].Content =
                        SelectPairs(@, 1, KnownRootKeys, TRUE)]

-----------------------------------------------------------------------------

DeprecatedKeyAddsNoError ==
    (/\ ReturnedParsed
     /\ Cardinality(FieldKeys(data, "runners", "disk")
                    \cup FieldKeys(data, "pools", "environment")) = 1
     /\ Errors(ValidateReader(WithoutDeprecated(data), sourceName)) = <<>>) =>
        /\ Errors(diags) = <<>>
        /\ Len(diags) = 1
        /\ diags[1].Severity = SeverityWarning

\* C9: a runner that is only `<<: *base` gives the diagnostics, Errors and
\* Warnings, of the runner written with the fields of the anchor as its own
\* keys; a `disk` key that comes from the anchor is reported like a literal
\* one.
MergeLikeLiteral ==
    (ReturnedParsed /\ MergesWrittenOut(data) # data) =>
        Summary(diags) = Summary(ValidateReader(MergesWrittenOut(data), sourceName))

\* The definition that closes the entries of a section.
SpecDefs == [runners |-> "#RunnerSpec", images |-> "#ImageSpec", pools |-> "#PoolSpec"]

\* The keys of the entries of the three sections of the decoded document v
\* that the entry's definition does not declare: section, entry and key.
UndeclaredKeys(v) ==
    IF v.t # "map" THEN {}
    ELSE UNION {UNION {{<<sec, e, k>> :
                          k \in (DOMAIN v.m[sec].m[e].m)
                                   \ DeclaredNames(SpecDefs[sec])} :
                       e \in {e \in DOMAIN v.m[sec].m : v.m[sec].m[e].t = "map"}} :
                sec \in {sec \in (DOMAIN SpecDefs) \cap (DOMAIN v.m) :
                            v.m[sec].t = "map"}}

-----------------------------------------------------------------------------
(* normalizeSpotValues on its own: the tree in yamlData is drawn from      *)
(* trees with a `spot` of every kind, under the root `runners`, under a    *)
(* `runners` key elsewhere, and under other keys.                          *)

\* {runners: {x: {spot: true}}}, the shape the normalizer looks for.
RunnersWith(spot) ==
    VMap("runners" :> VMap("x" :> VMap("spot" :> spot)))

SpotValues ==
    {VBool(TRUE), VBool(FALSE), VStr("true"), VStr("maybe"), VInt(1), VNull,
     VSeq(<<VBool(TRUE)>>), RunnersWith(VBool(TRUE))}

\* What stands next to `runners` at the root.
RootSiblings ==
    {<<>>}
    \cup {"x-nested" :> RunnersWith(w) : w \in {VBool(TRUE), VStr("pco")}}
    \cup {"images" :> VMap("i1" :> VMap("spot" :> w)) :
             w \in {VBool(TRUE), VStr("pco")}}
    \cup {"pools" :> VMap("p1" :> VMap(("spot" :> w)
                                       @@ ("schedule" :> VSeq(<<RunnersWith(w)>>)))) :
             w \in {VBool(FALSE), VStr("pco")}}
    \cup {"spot" :> w : w \in {VBool(TRUE), VStr("pco")}}

Trees ==
    {VMap(("runners" :> VMap(("r1" :> VMap(("spot" :> v) @@ ("cpu" :> VInt(2))))
                             @@ ("r2" :> VBool(TRUE))))
          @@ sibling) : v \in SpotValues, sibling \in RootSiblings}
    \cup {VMap(sibling) : sibling \in RootSiblings}
    \cup {VMap("runners" :> VSeq(<<VMap("spot" :> VBool(TRUE))>>)),
          VSeq(<<RunnersWith(VBool(FALSE)), VBool(TRUE)>>),
          VBool(TRUE), VNull}

NormalizeInit ==
    /\ pc = "normalize"
    /\ data = NoData
    /\ yamlData \in Trees
    /\ mem = OnHeap(yamlData)
    /\ validateErr = <<>>
    /\ call = NoCalls
    /\ schemaFS = ""
    /\ loads = 0
    /\ schemaErrors = <<>>
    /\ phaseA = <<>>
    /\ phaseB = <<>>
    /\ warnings = <<>>
    /\ diags = <<>>
    /\ err = ""
    /\ sourceName = "runs-on.yml"
    /\ format = ""
    /\ stdout = NoOutput
    /\ stderr = <<>>
    /\ exitCode = -1

NormalizeNext == Normalize

NormalizeSpec == NormalizeInit /\ [][NormalizeNext]_vars

-----------------------------------------------------------------------------
(* Claims about the normalizer                                             *)

\* normalizeSpotValues has returned.
Normalized == pc = "remarshal"

\* The tree it was called with, and the tree it returned.
InputTree == ValueAt(mem.cells, mem.input)
OutputTree == ValueAt(mem.cells, mem.output)

\* A runner with a Bool `spot` turned into the string of that Bool.
SpotAsString(spec) ==
    IF spec.t = "map" /\ "spot" \in DOMAIN spec.m /\ spec.m["spot"].t = "bool"
    THEN [spec EXCEPT !.m["spot"] =
            IF @.b THEN VStr("true") ELSE VStr("false")]
    ELSE spec

\* The tree t with `spot` rewritten in the entries of the root `runners`
\* mapping and nowhere else.
RootSpotsAsStrings(t) ==
    IF t.t = "map" /\ "runners" \in DOMAIN t.m /\ t.m["runners"].t = "map"
    THEN [t EXCEPT !.m["runners"] =
            VMap([r \in DOMAIN @.m |-> SpotAsString(@.m[r])])]
    ELSE t

\* C11: the normalizer returns the tree it was given except that, in every
\* entry of the root `runners` mapping, a Bool `spot` is the string "true"
\* or "false"; a `spot` of another kind is as it was.
OnlyRootSpotsRewritten ==
    Normalized => yamlData = RootSpotsAsStrings(InputTree)

\* C12: what is not under the root `runners` mapping comes back unchanged:
\* the other root keys, a root that is no mapping, and the fields of a
\* runner other than a Bool `spot`; a Bool `spot` under a `runners` key
\* inside a custom root key or inside a runner's field stays a Bool.
OutsideRootRunnersUnchanged ==
    Normalized =>
        LET t == InputTree
        IN  /\ t.t # "map" => yamlData = t
            /\ t.t = "map" =>
                  /\ yamlData.t = "map"
                  /\ DOMAIN yamlData.m = DOMAIN t.m
                  /\ \A key \in DOMAIN t.m :
                        /\ (key # "runners" \/ t.m[key].t # "map") =>
                              yamlData.m[key] = t.m[key]
                        /\ (key = "runners" /\ t.m[key].t = "map") =>
                              \A r \in DOMAIN t.m[key].m :
                                 LET spec == t.m[key].m[r]
                                     out == yamlData.m[key].m[r]
                                 IN  IF spec.t # "map" THEN out = spec
                                     ELSE \A f \in DOMAIN spec.m :
                                             (f # "spot" \/ spec.m[f].t # "bool")
                                                 => out.m[f] = spec.m[f]

\* C13: the normalizer is idempotent: called on the tree it returned, it
\* returns that tree.
NormalizeIdempotent ==
    Normalized => normalizeSpotValues(yamlData) = yamlData

\* The call turned `spot: true` of the runner r1 into "true", and Bools
\* that are no runner's `spot` are still in the tree it returned.
RewrittenOnce ==
    /\ Normalized
    /\ InputTree.t = "map"
    /\ "runners" \in DOMAIN InputTree.m
    /\ InputTree.m["runners"].t = "map"
    /\ InputTree.m["runners"].m["r1"].m["spot"] = VBool(TRUE)
    /\ yamlData.m["runners"].m["r1"].m["spot"] = VStr("true")
    /\ yamlData.m["runners"].m["r2"] = VBool(TRUE)

\* C14: the call does not write to the tree it is given: every map and
\* slice that existed before the call has the keys, elements and values it
\* had, the caller's tree is at the same place, and the tree returned is
\* made of maps and slices of its own.
InputNotMutated ==
    [][pc = "normalize" =>
          /\ Len(mem'.cells) >= Len(mem.cells)
          /\ \A a \in 1..Len(mem.cells) : mem'.cells[a] = mem.cells[a]
          /\ mem'.input = mem.input
          /\ ValueAt(mem'.cells, mem'.input) = ValueAt(mem.cells, mem.input)
          /\ CellsOf(mem'.cells, mem'.output)
                \cap CellsOf(mem.cells, mem.input) = {}]_vars

\* A call returned a tree that differs from the one it was given, which is
\* still in place with its Bool.
CopyDiffersFromInput ==
    /\ Normalized
    /\ OutputTree # InputTree
    /\ \E a \in CellsOf(mem.cells, mem.input) :
          /\ "spot" \in DOMAIN mem.cells[a].m
          /\ mem.cells[a].m["spot"].t = "bool"

-----------------------------------------------------------------------------
(* ValidateReader on documents with one runner or one pool, where one      *)
(* field takes each of its shapes.                                         *)

ValidRunner ==
    <<Field("cpu", FlowSeq(<<Plain("2")>>)),
      Field("ram", FlowSeq(<<Plain("16")>>)),
      Field("family", FlowSeq(<<Plain("c7a")>>))>>

\* The fields with the value of the field `key` replaced, or the field
\* added at the end.
WithField(fields, key, value) ==
    IF \E i \in 1..Len(fields) : fields[i].key = key
    THEN [i \in 1..Len(fields) |->
            IF fields[i].key = key THEN Field(key, value) ELSE fields[i]]
    ELSE Append(fields, Field(key, value))

SpotEnum ==
    {"false", "never", "true", "pco", "price-capacity-optimized", "lp",
     "lowest-price", "co", "capacity-optimized"}

SpotShapes ==
    {Plain("false"), Plain("true"), Quoted("maybe"), Plain("maybe"), Plain("5")}
    \cup {Quoted(e) : e \in SpotEnum}

IntArrayShapes ==
    {Plain("4"), Quoted("2+4"), Plain("2+4"), Quoted("4"), FlowSeq(<<>>),
     FlowSeq(<<Plain("2"), Plain("4")>>),
     FlowSeq(<<Quoted("2"), Quoted("4")>>),
     Plain("true"), FlowSeq(<<Plain("true")>>),
     FlowSeq(<<Plain("2"), Quoted("4")>>)}

StringArrayShapes ==
    {Plain("c7a"), Quoted("c7a+m7a"), FlowSeq(<<Quoted("c7a"), Quoted("m7a")>>),
     FlowSeq(<<Plain("c7a")>>), Plain("5"), FlowSeq(<<Plain("5")>>)}

DebugShapes == {Plain("true"), Plain("false"), Quoted("true"), Quoted("false")}

RunnerCases ==
    {WithField(ValidRunner, "spot", v) : v \in SpotShapes}
    \cup {WithField(ValidRunner, key, v) :
             key \in {"cpu", "ram"}, v \in IntArrayShapes}
    \cup {WithField(ValidRunner, key, v) :
             key \in {"retry", "extras", "family"}, v \in StringArrayShapes}
    \cup {WithField(ValidRunner, "debug", v) : v \in DebugShapes}
    \cup {<<Field("cpu", Plain("4")), Field("ram", Quoted("16+32")),
            Field("family", Plain("c7a")), Field("retry", Plain("always")),
            Field("extras", FlowSeq(<<Plain("efs")>>))>>}

\* `schedule: [{name: x, hot: .., stopped: ..}]`.
ScheduleOf(hot, stopped) ==
    FlowSeq(<<FlowMap(<<Plain("name"), Plain("x"), Plain("hot"), Plain(hot),
                        Plain("stopped"), Plain(stopped)>>)>>)

ScheduleShapes ==
    {ScheduleOf(hot, stopped) : hot \in {"1", "0", "-5"}, stopped \in {"2", "-10"}}
    \cup {FlowSeq(<<>>),
          FlowSeq(<<FlowMap(<<Plain("name"), Plain("x"), Plain("hot"), Plain("1")>>)>>),
          FlowSeq(<<FlowMap(<<Plain("name"), Plain("x"), Plain("hot"), Plain("1"),
                              Plain("stopped"), Plain("2")>>),
                    FlowMap(<<Plain("name"), Plain("y"), Plain("hot"), Plain("1"),
                              Plain("stopped"), Plain("-1")>>)>>)}

PoolCases ==
    {head \o <<Field("schedule", sched)>> :
        head \in {<<Field("name", Plain("p")), Field("runner", Plain("r1"))>>,
                  <<Field("runner", Plain("r1"))>>,
                  <<Field("name", Plain("p"))>>,
                  <<>>},
        sched \in ScheduleShapes}
    \cup {<<Field("name", Plain("p"))>>,
          <<Field("runner", Plain("r1"))>>,
          <<Field("name", Plain("p")), Field("timezone", Plain("UTC"))>>,
          <<Field("name", Plain("p")), Field("runner", Plain("5"))>>,
          <<Field("name", Plain("p")), Field("runners", Plain("r1"))>>}

FieldInputs ==
    {[syntaxErr |-> "", doc |-> Document("none", <<Body(fields)>>, <<>>)] :
        fields \in RunnerCases}
    \cup {[syntaxErr |-> "",
           doc |-> Document("none", <<Body(ValidRunner)>>, <<Body(fields)>>)] :
             fields \in PoolCases}

FieldInit ==
    /\ pc = "parse"
    /\ data \in FieldInputs
    /\ yamlData = VNull
    /\ schemaErrors = <<>>
    /\ phaseA = <<>>
    /\ phaseB = <<>>
    /\ warnings = <<>>
    /\ diags = <<>>
    /\ err = ""
    /\ sourceName = "test.yml"
    /\ format = ""
    /\ stdout = NoOutput
    /\ stderr = <<>>
    /\ exitCode = -1
    /\ mem = NoMem
    /\ validateErr = <<>>
    /\ call = NoCalls
    /\ schemaFS = ""
    /\ loads = 0

FieldNext ==
    \/ ParseYAML
    \/ Normalize
    \/ Remarshal
    \/ LoadSchema
    \/ ValidateSchema
    \/ MergePhases
    \/ ScanDeprecated

FieldSpec == FieldInit /\ [][FieldNext]_vars

-----------------------------------------------------------------------------
(* Claims about the schema                                                 *)

\* The document as decoded from the bytes, before normalisation.
Decoded == Unmarshal(data).v

\* The names of the entries of a root section that are mappings.
EntriesOf(section) ==
    IF /\ Decoded.t = "map"
       /\ section \in DOMAIN Decoded.m
       /\ Decoded.m[section].t = "map"
    THEN {e \in DOMAIN Decoded.m[section].m : Decoded.m[section].m[e].t = "map"}
    ELSE {}

EntryOf(section, e) == Decoded.m[section].m[e].m

\* The bytes without the key `field` in the entries of `section`.
WithoutField(d, section, field) ==
    LET Dropped(spec) == WithoutKey(spec, field)
    IN  InSection(d, section, Dropped)

\* The bytes without the root key `section`.
WithoutSection(d, section) ==
    IF ~HasRootMapping(d) THEN d
    ELSE [d EXCEPT !.doc.Content[1].Content =
                        SelectPairs(@, 1, {section}, FALSE)]

AllOf(v, kind) == v.t = "slice" /\ \A i \in 1..Len(v.e) : v.e[i].t = kind

IsIntArrayShape(v) ==
    v.t \in {"int", "string"} \/ AllOf(v, "int") \/ AllOf(v, "string")

IsStringArrayShape(v) == v.t = "string" \/ AllOf(v, "string")

\* C15: for a runner that is valid without its `spot`, a Bool `spot` and
\* each of the nine strings of the enum give no Error, and a string outside
\* the enum gives exactly one Error, not one per alternative that failed.
SpotOneErrorPerField ==
    ReturnedParsed =>
        \A r \in EntriesOf("runners") :
            ("spot" \in DOMAIN EntryOf("runners", r)
             /\ Errors(ValidateReader(WithoutField(data, "runners", "spot"),
                                      sourceName)) = <<>>) =>
                LET spot == EntryOf("runners", r)["spot"]
                IN  /\ (spot.t = "bool" \/ (spot.t = "string" /\ spot.s \in SpotEnum))
                          => Errors(diags) = <<>>
                    /\ (spot.t = "string" /\ spot.s \notin SpotEnum)
                          => Len(Errors(diags)) = 1

\* C15, the part that holds: a Bool `spot` and the strings of the enum give
\* no Error, and a string outside the enum gives at least one.
SpotEnumAccepted ==
    ReturnedParsed =>
        \A r \in EntriesOf("runners") :
            ("spot" \in DOMAIN EntryOf("runners", r)
             /\ Errors(ValidateReader(WithoutField(data, "runners", "spot"),
                                      sourceName)) = <<>>) =>
                LET spot == EntryOf("runners", r)["spot"]
                IN  /\ (spot.t = "bool" \/ (spot.t = "string" /\ spot.s \in SpotEnum))
                          => Errors(diags) = <<>>
                    /\ (spot.t = "string" /\ spot.s \notin SpotEnum)
                          => Errors(diags) # <<>>

\* C16: a document of runners whose `cpu` and `ram` are an int, a string,
\* an array of ints or an array of strings and whose `retry`, `extras` and
\* `family` are a string or an array of strings has no Error.
ShapesAccepted ==
    (/\ ReturnedParsed
     /\ Decoded.t = "map"
     /\ DOMAIN Decoded.m = {"runners"}
     /\ EntriesOf("runners") = DOMAIN Decoded.m["runners"].m
     /\ \A r \in EntriesOf("runners") :
           /\ DOMAIN EntryOf("runners", r)
                 \subseteq {"cpu", "ram", "retry", "extras", "family"}
           /\ \A f \in DOMAIN EntryOf("runners", r) :
                 IF f \in {"cpu", "ram"}
                 THEN IsIntArrayShape(EntryOf("runners", r)[f])
                 ELSE IsStringArrayShape(EntryOf("runners", r)[f]))
        => Errors(diags) = <<>>

\* A runner with an int, a plus-joined string, plain strings and an array
\* validated without an Error.
MixedShapesAccepted ==
    /\ ReturnedParsed
    /\ EntriesOf("runners") = {"r1"}
    /\ DOMAIN EntryOf("runners", "r1") = {"cpu", "ram", "retry", "extras", "family"}
    /\ EntryOf("runners", "r1")["cpu"] = VInt(4)
    /\ EntryOf("runners", "r1")["ram"] = VStr("16+32")
    /\ EntryOf("runners", "r1")["extras"].t = "slice"
    /\ diags = <<>>

\* C17: a pool with a `runner` string and a schedule whose entries have a
\* `name` and non-negative `hot` and `stopped`, and without a `name` of its
\* own, has no Error: `runner` is the only required field of a pool.
PoolNameNotRequired ==
    ReturnedParsed =>
        \A p \in EntriesOf("pools") :
            LET pool == EntryOf("pools", p)
            IN  (/\ DOMAIN pool = {"runner", "schedule"}
                 /\ pool["runner"].t = "string"
                 /\ pool["schedule"].t = "slice"
                 /\ \A i \in 1..Len(pool["schedule"].e) :
                       LET entry == pool["schedule"].e[i]
                       IN  /\ entry.t = "map"
                           /\ DOMAIN entry.m = {"name", "hot", "stopped"}
                           /\ entry.m["name"].t = "string"
                           /\ entry.m["hot"].t = "int" /\ entry.m["hot"].n >= 0
                           /\ entry.m["stopped"].t = "int"
                           /\ entry.m["stopped"].n >= 0
                 /\ EntriesOf("pools") = {p}
                 /\ Errors(ValidateReader(WithoutSection(data, "pools"),
                                          sourceName)) = <<>>)
                    => Errors(diags) = <<>>

\* C18: a runner with a `debug` key that is a Bool or the string "true" or
\* "false", next to valid `cpu`, `ram` and `family`, has no Error.
DebugAccepted ==
    ReturnedParsed =>
        \A r \in EntriesOf("runners") :
            LET runner == EntryOf("runners", r)
            IN  (/\ DOMAIN runner = {"cpu", "ram", "family", "debug"}
                 /\ \/ runner["debug"].t = "bool"
                    \/ runner["debug"] \in {VStr("true"), VStr("false")}
                 /\ Errors(ValidateReader(WithoutField(data, "runners", "debug"),
                                          sourceName)) = <<>>)
                    => Errors(diags) = <<>>

NegativeCountReported ==
    ReturnedParsed =>
        \A p \in EntriesOf("pools") :
            ("schedule" \in DOMAIN EntryOf("pools", p)
             /\ EntryOf("pools", p)["schedule"].t = "slice") =>
                \A k \in 1..Len(EntryOf("pools", p)["schedule"].e) :
                    LET entry == EntryOf("pools", p)["schedule"].e[k]
                    IN  entry.t = "map" =>
                        \A f \in {"hot", "stopped"} \cap DOMAIN entry.m :
                            (entry.m[f].t = "int" /\ entry.m[f].n < 0) =>
                                \E i \in 1..Len(diags) :
                                    /\ diags[i].Severity = SeverityError
                                    /\ Contains(diags[i].Message,
                                                "schedule." \o ToString(k - 1)
                                                    \o "." \o f \o ": ")
                                    /\ \/ Contains(diags[i].Message, ">=0")
                                       \/ Contains(diags[i].Message,
                                                   ToString(entry.m[f].n))

\* A schedule with `hot: -5` and `stopped: -10` gave an Error for each.
BothCountsNegative ==
    /\ ReturnedParsed
    /\ EntriesOf("pools") = {"p1"}
    /\ \E i, j \in 1..Len(diags) :
          /\ Contains(diags[i].Message, "hot: invalid value -5")
          /\ Contains(diags[j].Message, "stopped: invalid value -10")

\* The dotted paths of the fields of the document that miss a required
\* value or hold a value of a kind their type does not admit.
ViolatingFields ==
    UNION {{"runners." \o r \o "." \o f :
               f \in {g \in DOMAIN EntryOf("runners", r) :
                        \/ /\ g \in {"cpu", "ram"}
                           /\ ~IsIntArrayShape(EntryOf("runners", r)[g])
                        \/ /\ g \in {"retry", "extras", "family"}
                           /\ ~IsStringArrayShape(EntryOf("runners", r)[g])
                        \/ /\ g = "spot"
                           /\ EntryOf("runners", r)[g].t
                                  \notin {"bool", "string"}}} :
              r \in EntriesOf("runners")}
    \cup
    UNION {{"pools." \o p \o "." \o f :
               f \in {g \in {"runner", "name"} :
                        \/ g \notin DOMAIN EntryOf("pools", p)
                        \/ /\ g = "runner"
                           /\ EntryOf("pools", p)[g].t # "string"}} :
              p \in EntriesOf("pools")}

\* C21 as stated: for every field that misses a required value or holds a
\* value of the wrong type, some Error diagnostic has the field's dotted
\* path in its Path.
PathNamesField ==
    ReturnedParsed =>
        \A f \in ViolatingFields :
            \E i \in 1..Len(diags) :
                /\ diags[i].Severity = SeverityError
                /\ Contains(diags[i].Path, f)

\* C21: for every field that misses a required value or holds a value of
\* the wrong type, some Error diagnostic names the field's dotted path at
\* the start of its Message; its Path is the name of the source.
MessageNamesField ==
    ReturnedParsed =>
        \A f \in ViolatingFields :
            \E i \in 1..Len(diags) :
                /\ diags[i].Severity = SeverityError
                /\ HasPrefix(diags[i].Message, "#Config." \o f \o ": ")
                /\ diags[i].Path = sourceName

\* A document with a missing required field and one with a value of the
\* wrong type were validated.
FieldViolationReturned ==
    /\ ReturnedParsed
    /\ ViolatingFields # {}
    /\ \/ "pools.p1.runner" \in ViolatingFields
       \/ "runners.r1.cpu" \in ViolatingFields
    /\ \A i \in 1..Len(diags) : diags[i].Path = "test.yml"

\* The index of the first occurrence of substr in s from index i on, 0 when
\* there is none.
RECURSIVE IndexFrom(_, _, _)
IndexFrom(s, substr, i) ==
    IF i + Len(substr) - 1 > Len(s) THEN 0
    ELSE IF SubSeq(s, i, i + Len(substr) - 1) = substr THEN i
    ELSE IndexFrom(s, substr, i + 1)

\* The digits of s from index i on.
RECURSIVE DigitsFrom(_, _)
DigitsFrom(s, i) ==
    IF i > Len(s) \/ ~IsDigit(SubSeq(s, i, i)) THEN ""
    ELSE SubSeq(s, i, i) \o DigitsFrom(s, i + 1)

\* The line the parser's error reports ("yaml: line 3: ..."), 0 when it
\* reports none.
ReportedLine(parseErr) ==
    LET at == IndexFrom(parseErr, "line ", 1)
    IN  IF at = 0 \/ DigitsFrom(parseErr, at + 5) = "" THEN 0
        ELSE ParseDigits(DigitsFrom(parseErr, at + 5))

\* C22: the diagnostic of a parse failure has line 0 and column 0 only when
\* the parser's error reports no position; when the error reports a line,
\* the diagnostic carries it.
ParseErrorCarriesPosition ==
    (pc = "returned" /\ data # NoData /\ Unmarshal(data).err # "") =>
        /\ Len(diags) = 1
        /\ diags[1].Line = ReportedLine(Unmarshal(data).err)
        /\ ReportedLine(Unmarshal(data).err) = 0 => diags[1].Column = 0

\* The causes a call error may name.
CallErrorPrefixes ==
    {"failed to open file: ", "failed to read content: ",
     "failed to marshal normalized YAML: ",
     "failed to unmarshal normalized YAML: ", "failed to load schema: "}

\* C23: a call of ValidateFile or ValidateReader ends with diagnostics and
\* a nil error, or with no diagnostics and an error; the error names a
\* failure to open or read the input, the re-marshal round trip or the
\* schema, and bytes that fail to parse end with a nil error.
DiagnosticsOrCallError ==
    pc = "returned" =>
        /\ err # "" => /\ diags = <<>>
                       /\ \E prefix \in CallErrorPrefixes : HasPrefix(err, prefix)
        /\ (data # NoData /\ Unmarshal(data).err # "") =>
              err = "" /\ diags # <<>>
        /\ (err = "" /\ data # NoData) =>
              diags = ValidateReader(data, sourceName)

\* A document that violates the schema ended with the call error of the
\* schema that did not load, and no diagnostic.
SchemaFailureIsCallError ==
    /\ pc = "returned"
    /\ HasPrefix(err, "failed to load schema: ")
    /\ diags = <<>>
    /\ data # NoData
    /\ Errors(ValidateReader(data, sourceName)) # <<>>

\* The key nodes of a `disk` under an entry of the root `runners` and of an
\* `environment` under an entry of the root `pools`, each with the key of
\* its entry, its value and the message of its warning.
DeprecatedKeys ==
    {[key |-> Root(data).Content[t[1] + 1].Content[t[2] + 1].Content[t[3]],
      value |-> Root(data).Content[t[1] + 1].Content[t[2] + 1].Content[t[3] + 1],
      entry |-> Root(data).Content[t[1] + 1].Content[t[2]],
      message |-> DiskMessage] : t \in FieldKeys(data, "runners", "disk")}
    \cup
    {[key |-> Root(data).Content[t[1] + 1].Content[t[2] + 1].Content[t[3]],
      value |-> Root(data).Content[t[1] + 1].Content[t[2] + 1].Content[t[3] + 1],
      entry |-> Root(data).Content[t[1] + 1].Content[t[2]],
      message |-> EnvironmentMessage] :
        t \in FieldKeys(data, "pools", "environment")}

At(node) == <<node.Line, node.Column>>

\* C26: every Warning returned has the line and column of the deprecated
\* key's own token, so a line of at least 1, and not those of the value or
\* of the key of the runner or pool; its message is the one of the scan of
\* the node tree, never the one of the fallback scan that names
\* `runners.<key>.disk` or `pools.<key>.environment` at line 0.
WarningAtKeyToken ==
    ReturnedParsed =>
        \A i \in 1..Len(diags) :
            diags[i].Severity = SeverityWarning =>
                /\ diags[i].Line >= 1
                /\ diags[i].Column >= 1
                /\ ~Contains(diags[i].Message, "'runners.")
                /\ ~Contains(diags[i].Message, "'pools.")
                /\ \E k \in DeprecatedKeys :
                      /\ k.message = diags[i].Message
                      /\ At(k.key) = <<diags[i].Line, diags[i].Column>>
                      /\ At(k.value) # <<diags[i].Line, diags[i].Column>>
                      /\ At(k.entry) # <<diags[i].Line, diags[i].Column>>

\* A `disk` on the second line of its runner: the warning has the key's
\* line, one below the first key of the runner.
WarningBelowFirstKey ==
    /\ ReturnedParsed
    /\ \E i \in 1..Len(diags), k \in DeprecatedKeys :
          /\ diags[i].Severity = SeverityWarning
          /\ At(k.key) = <<diags[i].Line, diags[i].Column>>
          /\ k.key.Line > k.entry.Line + 1

\* The key nodes named `disk` or `environment` anywhere in a node tree.
RECURSIVE KeysNamed(_)
KeysNamed(node) ==
    UNION {KeysNamed(node.Content[i]) : i \in 1..Len(node.Content)}
    \cup (IF node.Kind = "MappingNode"
          THEN {node.Content[i] :
                   i \in {j \in KeyIndexes(node) :
                             node.Content[j].Value \in {"disk", "environment"}}}
          ELSE {})

\* C27: a `disk` key gives a Warning only as a direct key of a direct entry
\* of the root `runners`, and an `environment` key only as a direct key of
\* a direct entry of the root `pools`: every Warning stands at such a key,
\* and no key of these names at the root, under `images`, under the other
\* section, deeper in an entry or under a nested `runners` or `pools` has a
\* Warning at its position.
OnlyFixedPositionsFlagged ==
    ReturnedParsed =>
        LET fixed == {<<At(k.key), k.message>> : k \in DeprecatedKeys}
            flagged == {<<<<diags[i].Line, diags[i].Column>>, diags[i].Message>> :
                           i \in {j \in 1..Len(diags) :
                                     diags[j].Severity = SeverityWarning}}
            elsewhere == {At(n) : n \in KeysNamed(data.doc)}
                         \ {At(k.key) : k \in DeprecatedKeys}
        IN  /\ flagged = fixed
            /\ \A w \in flagged : w[1] \notin elsewhere

\* A document with a `disk` in a pool, an `environment` in a runner and a
\* `disk` inside a runner's field, and no Warning.
DeprecatedNamesElsewhere ==
    /\ ReturnedParsed
    /\ Cardinality({At(n) : n \in KeysNamed(data.doc)}) >= 3
    /\ DeprecatedKeys = {}
    /\ Warnings(diags) = <<>>

-----------------------------------------------------------------------------
(* convertCueErrors on its own: the error list of a Validate call is drawn *)
(* from every list of at most MaxErrors errors, at the root of #Config or  *)
(* at a field, with no, one or two positions.                              *)

CueErrors ==
    {[path |-> path, text |-> text, pos |-> pos] :
        path \in {"#Config", "#Config.pools.p1.runner"},
        text \in {"incomplete value string",
                  " conflicting values 5 and string (mismatched types int and string) "},
        pos \in {<<>>,
                 <<[Line |-> 131, Column |-> 10]>>,
                 <<[Line |-> 116, Column |-> 8], [Line |-> 3, Column |-> 5]>>}}

ConvertInit ==
    /\ pc = "convert"
    /\ validateErr \in ListsUpTo(CueErrors, MaxErrors)
    /\ sourceName \in {"runs-on.yml", "<stdin>"}
    /\ data = NoData
    /\ yamlData = VNull
    /\ schemaErrors = <<>>
    /\ phaseA = <<>>
    /\ phaseB = <<>>
    /\ warnings = <<>>
    /\ diags = <<>>
    /\ err = ""
    /\ format = ""
    /\ stdout = NoOutput
    /\ stderr = <<>>
    /\ exitCode = -1
    /\ mem = NoMem
    /\ call = NoCalls
    /\ schemaFS = ""
    /\ loads = 0

\* schemaErrors = convertCueErrors(err, sourceName).
Convert ==
    /\ pc = "convert"
    /\ schemaErrors' = convertCueErrors(validateErr, sourceName)
    /\ pc' = "converted"
    /\ UNCHANGED <<data, yamlData, phaseA, phaseB, warnings, diags, err,
                   sourceName, format, stdout, stderr, exitCode>>
    /\ UNCHANGED <<mem, validateErr, call, schemaFS, loads>>

ConvertNext == Convert

ConvertSpec == ConvertInit /\ [][ConvertNext]_vars

AllSpaces(s) == \A i \in 1..Len(s) : IsSpace(SubSeq(s, i, i))

\* msg is s without the white space around it.
IsTrimmed(msg, s) ==
    /\ \E a, b \in 0..Len(s) :
          /\ a + b <= Len(s)
          /\ AllSpaces(SubSeq(s, 1, a))
          /\ AllSpaces(SubSeq(s, Len(s) - b + 1, Len(s)))
          /\ msg = SubSeq(s, a + 1, Len(s) - b)
    /\ msg # "" => /\ ~IsSpace(SubSeq(msg, 1, 1))
                   /\ ~IsSpace(SubSeq(msg, Len(msg), Len(msg)))

\* C28: convertCueErrors gives one Error diagnostic per error of the list,
\* in the order of the list; its line and column are those of the error's
\* first position, or 0 and 0 when it has none, and its message is the
\* error's text without a leading "#Config:" and without the white space
\* around it.
ConversionOneToOne ==
    pc = "converted" =>
        /\ Len(schemaErrors) = Len(validateErr)
        /\ \A i \in 1..Len(validateErr) :
              LET e == validateErr[i]
                  text == e.path \o ": " \o e.text
                  rest == IF SubSeq(text, 1, 8) = "#Config:"
                          THEN SubSeq(text, 9, Len(text)) ELSE text
              IN  /\ schemaErrors[i].Severity = SeverityError
                  /\ schemaErrors[i].Path = sourceName
                  /\ IF e.pos = <<>>
                     THEN schemaErrors[i].Line = 0 /\ schemaErrors[i].Column = 0
                     ELSE /\ schemaErrors[i].Line = Head(e.pos).Line
                          /\ schemaErrors[i].Column = Head(e.pos).Column
                  /\ IsTrimmed(schemaErrors[i].Message, rest)

\* Two errors were converted, the first at the root of #Config with two
\* positions and the second with none.
TwoErrorsConverted ==
    /\ pc = "converted"
    /\ Len(validateErr) = 2
    /\ validateErr[1].path = "#Config"
    /\ Len(validateErr[1].pos) = 2
    /\ validateErr[2].pos = <<>>
    /\ Len(schemaErrors) = 2
    /\ schemaErrors[1].Message = "incomplete value string"
    /\ schemaErrors[1].Line = 116
    /\ schemaErrors[2].Line = 0

\* How many diagnostics of a list have the message msg.
CountOf(ds, msg) == Cardinality({i \in 1..Len(ds) : ds[i].Message = msg})

\* C29: the merge never drops a duplicate within a phase: each message is
\* in the merged list as often as the first phase has it, and a message the
\* first phase does not have is there as often as the second phase has it;
\* the known messages are those of the first phase alone.
DedupOnlyAcrossPhases ==
    pc = "scan" =>
        \A msg \in ExistingMsgs(phaseA) \cup ExistingMsgs(phaseB) :
            CountOf(schemaErrors, msg) =
                IF CountOf(phaseA, msg) > 0 THEN CountOf(phaseA, msg)
                ELSE CountOf(phaseB, msg)

\* Two errors of the second phase with one message that the first phase
\* does not have were both appended, after the two errors with one message
\* of the first phase.
DuplicatesWithinPhasesKept ==
    /\ pc = "scan"
    /\ Len(phaseA) = 2 /\ phaseA[1].Message = phaseA[2].Message
    /\ Len(phaseB) = 2 /\ phaseB[1].Message = phaseB[2].Message
    /\ phaseB[1].Message # phaseA[1].Message
    /\ Len(schemaErrors) = 4

-----------------------------------------------------------------------------
(* A process that calls ValidateReader from several goroutines.  Each call *)
(* has its own locals; the process has the embedded schema, which every    *)
(* call reads through loadSchema.  The steps of the calls interleave.      *)

CallInputs ==
    {[syntaxErr |-> "", doc |-> Document("none", <<Body(ValidRunner)>>, <<>>)],
     [syntaxErr |-> "", doc |-> Document("none", <<RunnerMenu[2]>>, <<>>)],
     [syntaxErr |-> "", doc |-> Document("none", <<RunnerMenu[6]>>, <<>>)],
     [syntaxErr |-> "",
      doc |-> Document("none", <<Body(ValidRunner)>>,
                       <<Body(<<Field("name", Plain("p"))>>)>>)],
     [syntaxErr |-> "line 2: did not find expected key",
      doc |-> DocumentNode(<<>>)]}

CallsInit ==
    /\ call = NoCalls
    /\ schemaFS \in {""} \cup SchemaFailures
    /\ loads = 0
    /\ pc = "calls"
    /\ data = NoData
    /\ yamlData = VNull
    /\ schemaErrors = <<>>
    /\ phaseA = <<>>
    /\ phaseB = <<>>
    /\ warnings = <<>>
    /\ diags = <<>>
    /\ err = ""
    /\ sourceName = ""
    /\ format = ""
    /\ stdout = NoOutput
    /\ stderr = <<>>
    /\ exitCode = -1
    /\ mem = NoMem
    /\ validateErr = <<>>

\* The variables of the process that runs one call stay as they are.
OneCallUnchanged ==
    UNCHANGED <<pc, data, yamlData, schemaErrors, phaseA, phaseB, warnings,
                diags, err, sourceName, format, stdout, stderr, exitCode, mem,
                validateErr>>

\* A goroutine calls ValidateReader and io.ReadAll returns the bytes d.
StartCall(w, d) ==
    /\ call[w].pc = "idle"
    /\ call' = [call EXCEPT ![w] = [Idle EXCEPT !.pc = "parse", !.data = d,
                                                !.sourceName = w \o ".yml"]]
    /\ UNCHANGED <<schemaFS, loads>>
    /\ OneCallUnchanged

\* A call that loads the schema before it parses the bytes.
ParseCallAfterSchema(w) ==
    /\ call[w].pc = "parse"
    /\ LET parsed == Unmarshal(call[w].data)
       IN  call' = [call EXCEPT ![w] =
                IF schemaFS # ""
                THEN [@ EXCEPT !.pc = "returned",
                               !.err = "failed to load schema: " \o schemaFS]
                ELSE IF parsed.err # ""
                THEN [@ EXCEPT !.pc = "returned",
                               !.diags = <<Diagnostic(call[w].sourceName, 0, 0,
                                             "YAML parse error: " \o parsed.err,
                                             SeverityError)>>]
                ELSE [@ EXCEPT !.pc = "normalize", !.yamlData = parsed.v]]
    /\ UNCHANGED <<schemaFS, loads>>
    /\ OneCallUnchanged

\* yaml.Unmarshal of the call's bytes.
ParseCall(w) ==
    /\ call[w].pc = "parse"
    /\ LET parsed == Unmarshal(call[w].data)
       IN  call' = [call EXCEPT ![w] =
                IF parsed.err # ""
                THEN [@ EXCEPT !.pc = "returned",
                               !.diags = <<Diagnostic(call[w].sourceName, 0, 0,
                                             "YAML parse error: " \o parsed.err,
                                             SeverityError)>>]
                ELSE [@ EXCEPT !.pc = "normalize", !.yamlData = parsed.v]]
    /\ UNCHANGED <<schemaFS, loads>>
    /\ OneCallUnchanged

\* normalizeSpotValues and the re-marshal round trip of the call's tree.
NormalizeCall(w) ==
    /\ call[w].pc = "normalize"
    /\ LET again == Unmarshal(Marshal(normalizeSpotValues(call[w].yamlData)))
       IN  call' = [call EXCEPT ![w] =
                IF again.err # ""
                THEN [@ EXCEPT !.pc = "returned",
                               !.err = "failed to unmarshal normalized YAML: "
                                       \o again.err]
                ELSE [@ EXCEPT !.pc = "schema", !.yamlData = again.v]]
    /\ UNCHANGED <<schemaFS, loads>>
    /\ OneCallUnchanged

\* loadSchema, run by the call: it reads and compiles the schema again.
LoadSchemaCall(w) ==
    /\ call[w].pc = "schema"
    /\ loads' = loads + 1
    /\ call' = [call EXCEPT ![w] =
            IF schemaFS # ""
            THEN [@ EXCEPT !.pc = "returned",
                           !.err = "failed to load schema: " \o schemaFS]
            ELSE [@ EXCEPT !.pc = "validate"]]
    /\ UNCHANGED schemaFS
    /\ OneCallUnchanged

\* A validation that reads the tree of whichever call has one.
ValidateCallShared(w) ==
    /\ call[w].pc = "validate"
    /\ \E u \in Workers :
          /\ call[u].pc \notin {"idle", "parse"}
          /\ LET errors == convertCueErrors(Validate(call[u].yamlData, FALSE),
                                            call[w].sourceName)
                 incompleteErrors ==
                     convertCueErrors(Validate(call[u].yamlData, TRUE),
                                      call[w].sourceName)
             IN  call' = [call EXCEPT ![w].pc = "scan",
                                      ![w].schemaErrors =
                                          AppendIncomplete(errors, incompleteErrors,
                                                           ExistingMsgs(errors))]
    /\ UNCHANGED <<schemaFS, loads>>
    /\ OneCallUnchanged

\* The two Validate calls on the call's own tree, and the merge.
ValidateCall(w) ==
    /\ call[w].pc = "validate"
    /\ LET errors == convertCueErrors(Validate(call[w].yamlData, FALSE),
                                      call[w].sourceName)
           incompleteErrors ==
               convertCueErrors(Validate(call[w].yamlData, TRUE),
                                call[w].sourceName)
       IN  call' = [call EXCEPT ![w].pc = "scan",
                                ![w].schemaErrors =
                                    AppendIncomplete(errors, incompleteErrors,
                                                     ExistingMsgs(errors))]
    /\ UNCHANGED <<schemaFS, loads>>
    /\ OneCallUnchanged

\* checkDeprecatedFields and the return of the call.
ScanCall(w) ==
    /\ call[w].pc = "scan"
    /\ call' = [call EXCEPT ![w].pc = "returned",
                            ![w].diags =
                                call[w].schemaErrors
                                \o checkDeprecatedFields(call[w].yamlData,
                                                         call[w].sourceName,
                                                         call[w].data)]
    /\ UNCHANGED <<schemaFS, loads>>
    /\ OneCallUnchanged

CallsNext ==
    \E w \in Workers :
        \/ \E d \in CallInputs : StartCall(w, d)
        \/ ParseCall(w)
        \/ NormalizeCall(w)
        \/ LoadSchemaCall(w)
        \/ ValidateCall(w)
        \/ ScanCall(w)

CallsSpec == CallsInit /\ [][CallsNext]_vars

\* C24: across the validation calls of one process the schema is loaded at
\* most once.
SchemaLoadedOnce == loads <= 1

\* C25: whatever the interleaving of the steps of the calls, a call returns
\* the diagnostics it returns when it runs alone, and a call error only
\* when the schema does not load.
CallsIndependent ==
    \A w \in Workers :
        call[w].pc = "returned" =>
            IF call[w].err = ""
            THEN call[w].diags = ValidateReader(call[w].data, call[w].sourceName)
            ELSE /\ schemaFS # ""
                 /\ call[w].diags = <<>>
                 /\ call[w].err = "failed to load schema: " \o schemaFS

\* A call returned its Errors while another call, on other bytes, was
\* between its parse and its return.
ReturnedWhileOtherRuns ==
    \E w, u \in Workers :
        /\ call[w].pc = "returned"
        /\ Errors(call[w].diags) # <<>>
        /\ call[u].pc \in {"normalize", "schema", "validate", "scan"}
        /\ call[u].data # call[w].data

\* C30: bytes that fail to parse end the call with the one parse-error
\* diagnostic and a nil error also in a process whose schema does not load;
\* the failure of the schema is the error of the calls whose bytes parse.
ParseBeforeSchema ==
    \A w \in Workers :
        call[w].pc = "returned" =>
            IF Unmarshal(call[w].data).err # ""
            THEN /\ call[w].err = ""
                 /\ Len(call[w].diags) = 1
                 /\ HasPrefix(call[w].diags[1].Message, "YAML parse error: ")
                 /\ call[w].diags[1].Severity = SeverityError
            ELSE schemaFS # "" =>
                    /\ call[w].err = "failed to load schema: " \o schemaFS
                    /\ call[w].diags = <<>>

\* In a process whose schema does not compile, one call returned a parse
\* error as a diagnostic and another the failure of the schema as its error.
ParseErrorDespiteSchema ==
    /\ schemaFS = "failed to compile schema: invalid schema"
    /\ \E w, u \in Workers :
          /\ call[w].pc = "returned"
          /\ call[w].err = ""
          /\ Len(call[w].diags) = 1
          /\ Unmarshal(call[w].data).err # ""
          /\ call[u].pc = "returned"
          /\ call[u].err # ""

====
